---- MODULE Spec2Model ----
(***************************************************************************)
(* The recurrence engine of kcalendarcore (src/src/freebusy.cpp, class     *)
(* Recurrence): the state kept in Recurrence::Private, its mutators and    *)
(* its queries.  KDateTime, SortableList and RecurrenceRule are not part   *)
(* of the sources at hand; they are modelled from the specification        *)
(* (sections 4.1 and 4.2) and kept apart from the code of Recurrence.      *)
(***************************************************************************)
EXTENDS Integers, Sequences, FiniteSets, TLC

(***************************************************************************)
(* Bounds of the model.                                                    *)
(***************************************************************************)
\* longest date or date/time list an add* action builds
MaxLen == 2
\* most rules an addRRule / addExRule action puts into one rule list
MaxRules == 1
\* most shiftTimes calls in one behaviour
MaxShifts == 2

(***************************************************************************)
(* TimeModel (specification 4.1).  An instant is a record                  *)
(*   [utc |-> seconds on the absolute time line, z |-> zone,               *)
(*    dateOnly |-> whether it has no time of day].                         *)
(* Zone "none" is the invalid zone; an instant in it is the invalid        *)
(* KDateTime().  Zone "DST" leaves daylight saving time at DstEnd: its     *)
(* offset falls from one hour to zero, so one wall-clock hour repeats.     *)
(***************************************************************************)
SecsPerDay == 86400
SecsPerHour == 3600
DstEnd == SecsPerDay + SecsPerHour

NoTime == [utc |-> 0, z |-> "none", dateOnly |-> FALSE]

isValid(t) == t.z # "none"

Offset(z, u) ==
  CASE z = "P1" -> SecsPerHour
    [] z = "DST" -> IF u < DstEnd THEN SecsPerHour ELSE 0
    [] OTHER -> 0

\* the wall-clock reading of an instant in its own zone, in seconds
Wall(t) == t.utc + Offset(t.z, t.utc)

\* the instant whose wall-clock reading in zone z is w (the first of the two
\* when the reading repeats)
FromWall(w, z) ==
  CASE z = "none" -> NoTime
    [] z = "DST" -> IF w - SecsPerHour < DstEnd
                    THEN [utc |-> w - SecsPerHour, z |-> z, dateOnly |-> FALSE]
                    ELSE [utc |-> w, z |-> z, dateOnly |-> FALSE]
    [] OTHER -> [utc |-> w - Offset(z, 0), z |-> z, dateOnly |-> FALSE]

\* KDateTime::date(), time(): calendar day number and second of the day
date(t) == Wall(t) \div SecsPerDay
time(t) == Wall(t) % SecsPerDay

\* KDateTime(QDate, QTime, Spec)
KDateTime(qd, tm, z) == FromWall(qd * SecsPerDay + tm, z)

\* KDateTime(QDate, Spec): a date-only value
KDate(qd, z) == [FromWall(qd * SecsPerDay, z) EXCEPT !.dateOnly = (z # "none")]

\* KDateTime::toTimeSpec: the same absolute moment read in another zone
toTimeSpec(t, z) ==
  IF ~isValid(t) \/ z = "none" THEN NoTime ELSE [t EXCEPT !.z = z]

\* KDateTime::setTimeSpec: the same wall-clock reading stamped with another zone
setTimeSpec(t, z) ==
  IF ~isValid(t) THEN NoTime
  ELSE [FromWall(Wall(t), z) EXCEPT !.dateOnly = (t.dateOnly /\ z # "none")]

\* KDateTime::setDate: another day, the same time of day and zone
setDate(t, qd) ==
  [FromWall(qd * SecsPerDay + time(t), t.z) EXCEPT !.dateOnly = t.dateOnly]

\* KDateTime comparison: by absolute moment
dtLess(a, b) == a.utc < b.utc
dtEqual(a, b) == isValid(a) = isValid(b) /\ a.utc = b.utc

(***************************************************************************)
(* SortableList (DateList, DateTimeList, TimeList): sorted sequences.      *)
(* The operators take the order as a key: keyOf(x) is x for dates and      *)
(* times of day and x.utc for instants.                                    *)
(***************************************************************************)
dtKey(seq) == [i \in DOMAIN seq |-> seq[i].utc]

\* indices i < j of one value
isSortedUnique(keys) ==
  \A i \in 1..(Len(keys) - 1) : keys[i] < keys[i + 1]

\* SortableList::containsSorted
containsSorted(keys, k) == \E i \in DOMAIN keys : keys[i] = k

\* position at which k is inserted: behind every smaller element
insertPos(keys, k) == Cardinality({i \in DOMAIN keys : keys[i] < k}) + 1

\* SortableList::insertSorted: no insertion when the value is in the list
insertSorted(seq, keys, x, k) ==
  IF containsSorted(keys, k) THEN seq
  ELSE LET p == insertPos(keys, k)
       IN  SubSeq(seq, 1, p - 1) \o <<x>> \o SubSeq(seq, p, Len(seq))

\* SortableList::sortUnique, by insertion
RECURSIVE sortUniqueDt(_)
sortUniqueDt(seq) ==
  IF seq = <<>> THEN <<>>
  ELSE LET rest == sortUniqueDt(SubSeq(seq, 1, Len(seq) - 1))
           x    == seq[Len(seq)]
       IN  insertSorted(rest, dtKey(rest), x, x.utc)

RECURSIVE sortUniqueInt(_)
sortUniqueInt(seq) ==
  IF seq = <<>> THEN <<>>
  ELSE LET rest == sortUniqueInt(SubSeq(seq, 1, Len(seq) - 1))
           x    == seq[Len(seq)]
       IN  insertSorted(rest, rest, x, x)

\* SortableList::findGT: index of the first element greater than k, 0 if none
findGT(keys, k) ==
  LET s == {i \in DOMAIN keys : keys[i] > k}
  IN  IF s = {} THEN 0 ELSE CHOOSE i \in s : \A j \in s : i <= j

\* SortableList::findLT: index of the last element smaller than k, 0 if none
findLT(keys, k) ==
  LET s == {i \in DOMAIN keys : keys[i] < k}
  IN  IF s = {} THEN 0 ELSE CHOOSE i \in s : \A j \in s : i >= j

seqRange(seq) == {seq[i] : i \in DOMAIN seq}

(***************************************************************************)
(* RecurrenceRule (specification 4.2), as far as Recurrence uses it.  A    *)
(* rule is a record; duration is -1 for a rule that never ends, 0 for one  *)
(* that ends at endDt and n > 0 for one that ends after n occurrences.     *)
(* The occurrences of a rule without BY-filters are the instants           *)
(*   start + k * frequency * period,  k = 0, 1, ...                        *)
(* taken on the wall clock of the zone of start.  Calendar months and      *)
(* years have no fixed length and are not expanded: such a rule, and a     *)
(* rule without a period, occurs at its start only.                        *)
(***************************************************************************)
RecurrenceRule(period, frequency, start, duration, endDt) ==
  [period |-> period, frequency |-> frequency, start |-> start,
   duration |-> duration, endDt |-> endDt, floats |-> FALSE, weekStart |-> 1,
   byDays |-> <<>>, byMonthDays |-> <<>>, byYearDays |-> <<>>, byMonths |-> <<>>,
   bySetPos |-> <<>>, bySeconds |-> <<>>, byWeekNumbers |-> <<>>,
   byMinutes |-> <<>>, byHours |-> <<>>]

\* RecurrenceRule(): rNone, frequency 0 until set, no end
newRule == RecurrenceRule("rNone", 0, NoTime, -1, NoTime)

periodSecs(period) ==
  CASE period = "rMinutely" -> 60
    [] period = "rHourly" -> SecsPerHour
    [] period = "rDaily" -> SecsPerDay
    [] period = "rWeekly" -> 7 * SecsPerDay
    [] OTHER -> 0

ruleStep(r) == r.frequency * periodSecs(r.period)

\* the k-th occurrence of the rule
ruleOcc(r, k) == FromWall(Wall(r.start) + k * ruleStep(r), r.start.z)

\* the index of the last occurrence; -1 when there is none, -2 when the rule
\* never ends
ruleLastIndex(r) ==
  IF ~isValid(r.start) THEN -1
  ELSE IF ruleStep(r) <= 0 THEN 0
  ELSE IF r.duration > 0 THEN r.duration - 1
  ELSE IF r.duration = 0
       THEN IF ~isValid(r.endDt) \/ r.endDt.utc < r.start.utc THEN -1
            ELSE (Wall(toTimeSpec(r.endDt, r.start.z)) - Wall(r.start)) \div ruleStep(r)
  ELSE -2

ruleHasIndex(r, k) ==
  LET last == ruleLastIndex(r)
  IN  k >= 0 /\ (last = -2 \/ k <= last)

\* RecurrenceRule::endDt: invalid for a rule that never ends
ruleEndDt(r) ==
  IF r.duration < 0 THEN NoTime
  ELSE IF r.duration = 0 THEN r.endDt
  ELSE IF ruleLastIndex(r) < 0 THEN NoTime
  ELSE ruleOcc(r, ruleLastIndex(r))

\* RecurrenceRule::recursAt
ruleRecursAt(r, dt) ==
  /\ isValid(dt) /\ isValid(r.start)
  /\ LET diff == Wall(toTimeSpec(dt, r.start.z)) - Wall(r.start)
         step == ruleStep(r)
     IN  IF step <= 0 THEN diff = 0
         ELSE diff >= 0 /\ diff % step = 0 /\ ruleHasIndex(r, diff \div step)

\* RecurrenceRule::getNextDate: the first occurrence after preDate
ruleGetNextDate(r, preDate) ==
  IF ~isValid(preDate) \/ ~isValid(r.start) THEN NoTime
  ELSE LET diff == Wall(toTimeSpec(preDate, r.start.z)) - Wall(r.start)
           step == ruleStep(r)
           k    == IF diff < 0 THEN 0
                   ELSE IF step <= 0 THEN 1
                   ELSE (diff \div step) + 1
       IN  IF ruleHasIndex(r, k) THEN ruleOcc(r, k) ELSE NoTime

\* RecurrenceRule::getPreviousDate: the last occurrence before afterDate
ruleGetPreviousDate(r, afterDate) ==
  IF ~isValid(afterDate) \/ ~isValid(r.start) THEN NoTime
  ELSE LET diff == Wall(toTimeSpec(afterDate, r.start.z)) - Wall(r.start)
           step == ruleStep(r)
           last == ruleLastIndex(r)
           k0   == IF diff <= 0 THEN -1
                   ELSE IF step <= 0 THEN 0
                   ELSE (diff - 1) \div step
           k    == IF last = -2 \/ k0 <= last THEN k0 ELSE last
       IN  IF k >= 0 THEN ruleOcc(r, k) ELSE NoTime

\* RecurrenceRule::timesInInterval: the occurrences in [start, end], ascending
ruleTimesInInterval(r, start, end) ==
  IF ~isValid(start) \/ ~isValid(end) \/ ~isValid(r.start) THEN <<>>
  ELSE LET lo   == Wall(toTimeSpec(start, r.start.z)) - Wall(r.start)
           hi   == Wall(toTimeSpec(end, r.start.z)) - Wall(r.start)
           step == ruleStep(r)
           last == ruleLastIndex(r)
           kLo  == IF lo <= 0 THEN 0
                   ELSE IF step <= 0 THEN 1
                   ELSE ((lo - 1) \div step) + 1
           kHi0 == IF hi < 0 THEN -1
                   ELSE IF step <= 0 THEN 0
                   ELSE hi \div step
           kHi  == IF last = -2 \/ kHi0 <= last THEN kHi0 ELSE last
       IN  [i \in 1..(kHi - kLo + 1) |-> ruleOcc(r, kLo + i - 1)]

\* RecurrenceRule::recurTimesOn: the times of day, in the zone asked for, of
\* the occurrences on a day of that zone
ruleRecurTimesOn(r, qd, timeSpec) ==
  LET occ == ruleTimesInInterval(r, KDateTime(qd, 0, timeSpec),
                                 KDateTime(qd, SecsPerDay - 1, timeSpec))
  IN  [i \in DOMAIN occ |-> time(toTimeSpec(occ[i], timeSpec))]

\* RecurrenceRule::recursOn
ruleRecursOn(r, qd, timeSpec) == ruleRecurTimesOn(r, qd, timeSpec) # <<>>

(***************************************************************************)
(* Recurrence.  The variable d holds the fields of Recurrence::Private,    *)
(* under their names in the source, and one observation: updates, the      *)
(* number of times the last operation ran updated(), which is the number   *)
(* of recurrenceUpdated calls each registered observer received from it.   *)
(* The variable search holds the local variables of a getNextDateTime or   *)
(* getPreviousDateTime call in progress.  The variable shifts counts the   *)
(* shiftTimes calls made so far.  The variable notify holds the local      *)
(* variables of a run of updated() over the observers.  The variable copy  *)
(* holds a recurrence, the recurrence copy-constructed from it, and the    *)
(* rule objects the two point to.  The variable fb is a FreeBusy, with the *)
(* arguments it was constructed from.                                      *)
(***************************************************************************)
VARIABLES d, search, shifts, notify, copy, fb

vars == <<d, search, shifts, notify, copy, fb>>

\* Recurrence::Private::Private()
Private ==
  [mExRules |-> <<>>, mRRules |-> <<>>,
   mRDateTimes |-> <<>>, mRDates |-> <<>>,
   mExDateTimes |-> <<>>, mExDates |-> <<>>,
   mStartDateTime |-> NoTime,
   mObservers |-> <<>>,
   mCachedType |-> "rMax", mFloating |-> FALSE, mRecurReadOnly |-> FALSE,
   updates |-> 0]

idle == [pc |-> "idle", fn |-> "none", loop |-> 0, dt |-> NoTime, result |-> NoTime]

\* a new recurrence r and no copy of it yet: heap is the rule objects by
\* address, each with the rule and the recurrences registered as its
\* observers; mRRules and mExRules of r and c are lists of addresses, and
\* rules is the number of rules the copy constructor has copied
uncopied == [made |-> FALSE, rules |-> 0, heap |-> <<>>, r |-> Private, c |-> Private]

\* FreeBusy(): no start, no end and no busy periods
FreeBusy ==
  [dtStart |-> NoTime, mDtEnd |-> NoTime, mBusyPeriods |-> <<>>]

\* no run of updated() in progress: i and end are its locals, registered the
\* observers at its start, got the observers called so far, outOfRange whether
\* mObservers was indexed at or beyond its length
quiet == [pc |-> "idle", i |-> 0, end |-> 0, registered |-> <<>>, got |-> <<>>,
          outOfRange |-> FALSE]

(***************************************************************************)
(* The mutators, each a function from the state before the call to the     *)
(* state after it.  A setter of a rule held in mRRules or mExRules calls   *)
(* back Recurrence::recurrenceChanged, which runs updated().               *)
(***************************************************************************)
\* updated() that leaves mCachedType alone
updated_cacheKept(s) == [s EXCEPT !.updates = @ + 1]

\* Recurrence::updated
updated(s) == [s EXCEPT !.mCachedType = "rMax", !.updates = @ + 1]

\* Recurrence::recurrenceChanged, called n times
recurrenceChanged(s, n) == IF n > 0 THEN [s EXCEPT !.mCachedType = "rMax", !.updates = @ + n] ELSE s

\* Recurrence::setFloats
setFloats(s, floats) ==
  IF s.mRecurReadOnly \/ floats = s.mFloating THEN s
  ELSE updated(recurrenceChanged(
         [s EXCEPT !.mFloating = floats,
                   !.mRRules = [i \in DOMAIN @ |-> [@[i] EXCEPT !.floats = floats]],
                   !.mExRules = [i \in DOMAIN @ |-> [@[i] EXCEPT !.floats = floats]]],
         Len(s.mRRules) + Len(s.mExRules)))

\* addRRule without rrule->setFloats( d->mFloating )
addRRule_floatsKept(s, rrule) ==
  IF s.mRecurReadOnly THEN s
  ELSE updated([s EXCEPT !.mRRules = Append(@, rrule)])

\* Recurrence::addRRule
addRRule(s, rrule) ==
  IF s.mRecurReadOnly THEN s
  ELSE updated([s EXCEPT !.mRRules = Append(@, [rrule EXCEPT !.floats = s.mFloating])])

\* Recurrence::addExRule
addExRule(s, exrule) ==
  IF s.mRecurReadOnly THEN s
  ELSE updated([s EXCEPT !.mExRules = Append(@, [exrule EXCEPT !.floats = s.mFloating])])

\* QList::removeAll of the rule at index i (0: a rule that is not in the list)
removeAt(seq, i) ==
  IF i \in DOMAIN seq THEN SubSeq(seq, 1, i - 1) \o SubSeq(seq, i + 1, Len(seq)) ELSE seq

\* Recurrence::removeRRule
removeRRule(s, i) ==
  IF s.mRecurReadOnly THEN s
  ELSE updated([s EXCEPT !.mRRules = removeAt(@, i)])

\* Recurrence::removeExRule
removeExRule(s, i) ==
  IF s.mRecurReadOnly THEN s
  ELSE updated([s EXCEPT !.mExRules = removeAt(@, i)])

\* defaultRRule creating the rule without setStartDt
defaultRRule_startUnset(s, create) ==
  IF s.mRRules = <<>> /\ create /\ ~s.mRecurReadOnly
  THEN addRRule(s, newRule)
  ELSE s

\* Recurrence::defaultRRule: the state after the call; the rule it returns is
\* mRRules[1] of that state, and null when that list is empty
defaultRRule(s, create) ==
  IF s.mRRules = <<>> /\ create /\ ~s.mRecurReadOnly
  THEN addRRule(s, [newRule EXCEPT !.start = s.mStartDateTime])
  ELSE s

\* a setter of the default rule: the rule changes and calls back
setDefaultRule(s, r) == recurrenceChanged([s EXCEPT !.mRRules[1] = r], 1)

\* Recurrence::setStartDateTime
setStartDateTime(s, start) ==
  IF s.mRecurReadOnly THEN s
  ELSE LET s1 == [s EXCEPT !.mStartDateTime = start]
       IN  IF start.dateOnly
           THEN updated(setFloats(s1, TRUE))
           ELSE LET s2 == setFloats(s1, FALSE)
                IN  updated(recurrenceChanged(
                      [s2 EXCEPT !.mRRules = [i \in DOMAIN @ |-> [@[i] EXCEPT !.start = start]],
                                 !.mExRules = [i \in DOMAIN @ |-> [@[i] EXCEPT !.start = start]]],
                      Len(s2.mRRules) + Len(s2.mExRules)))

\* Recurrence::setEndDateTime
setEndDateTime(s, dateTime) ==
  IF s.mRecurReadOnly THEN s
  ELSE LET s1 == defaultRRule(s, TRUE)
       IN  IF s1.mRRules = <<>> THEN s1
           ELSE updated(setDefaultRule(s1, [s1.mRRules[1] EXCEPT !.endDt = dateTime, !.duration = 0]))

\* Recurrence::setDuration
setDuration(s, duration) ==
  IF s.mRecurReadOnly THEN s
  ELSE LET s1 == defaultRRule(s, TRUE)
       IN  IF s1.mRRules = <<>> THEN s1
           ELSE updated(setDefaultRule(s1, [s1.mRRules[1] EXCEPT !.duration = duration]))

\* RecurrenceRule::shiftTimes
ruleShiftTimes(r, oldSpec, newSpec) ==
  [r EXCEPT !.start = setTimeSpec(toTimeSpec(@, oldSpec), newSpec),
            !.endDt = setTimeSpec(toTimeSpec(@, oldSpec), newSpec)]

shiftTimes_rDateTimesKept(s, oldSpec, newSpec) ==
  IF s.mRecurReadOnly THEN s
  ELSE recurrenceChanged(
         [s EXCEPT !.mStartDateTime = setTimeSpec(toTimeSpec(@, oldSpec), newSpec),
                   !.mExDateTimes = [i \in DOMAIN @ |-> setTimeSpec(toTimeSpec(@[i], oldSpec), newSpec)],
                   !.mRRules = [i \in DOMAIN @ |-> ruleShiftTimes(@[i], oldSpec, newSpec)],
                   !.mExRules = [i \in DOMAIN @ |-> ruleShiftTimes(@[i], oldSpec, newSpec)]],
         Len(s.mRRules) + Len(s.mExRules))

\* Recurrence::shiftTimes
shiftTimes(s, oldSpec, newSpec) ==
  IF s.mRecurReadOnly THEN s
  ELSE recurrenceChanged(
         [s EXCEPT !.mStartDateTime = setTimeSpec(toTimeSpec(@, oldSpec), newSpec),
                   !.mRDateTimes = [i \in DOMAIN @ |-> setTimeSpec(toTimeSpec(@[i], oldSpec), newSpec)],
                   !.mExDateTimes = [i \in DOMAIN @ |-> setTimeSpec(toTimeSpec(@[i], oldSpec), newSpec)],
                   !.mRRules = [i \in DOMAIN @ |-> ruleShiftTimes(@[i], oldSpec, newSpec)],
                   !.mExRules = [i \in DOMAIN @ |-> ruleShiftTimes(@[i], oldSpec, newSpec)]],
         Len(s.mRRules) + Len(s.mExRules))

\* Recurrence::unsetRecurs
unsetRecurs(s) ==
  IF s.mRecurReadOnly THEN s ELSE updated([s EXCEPT !.mRRules = <<>>])

\* Recurrence::clear
clear(s) ==
  IF s.mRecurReadOnly THEN s
  ELSE updated([s EXCEPT !.mRRules = <<>>, !.mExRules = <<>>,
                         !.mRDates = <<>>, !.mRDateTimes = <<>>,
                         !.mExDates = <<>>, !.mExDateTimes = <<>>,
                         !.mCachedType = "rMax"])

\* Recurrence::setRecurReadOnly
setRecurReadOnly(s, readOnly) == [s EXCEPT !.mRecurReadOnly = readOnly]

\* Recurrence::setFrequency
setFrequency(s, freq) ==
  IF s.mRecurReadOnly \/ freq <= 0 THEN s
  ELSE LET s1 == defaultRRule(s, TRUE)
       IN  IF s1.mRRules = <<>> THEN updated(s1)
           ELSE updated(setDefaultRule(s1, [s1.mRRules[1] EXCEPT !.frequency = freq]))

\* Recurrence::setNewRecurrenceType: the state after the call; it returns a
\* rule exactly when newRecurrenceTypeSet holds of the state before
newRecurrenceTypeSet(s, freq) == ~(s.mRecurReadOnly \/ freq <= 0)

setNewRecurrenceType(s, type, freq) ==
  IF s.mRecurReadOnly \/ freq <= 0 THEN s
  ELSE LET s1 == updated([s EXCEPT !.mRRules = <<>>])
           s2 == defaultRRule(s1, TRUE)
       IN  IF s2.mRRules = <<>> THEN s2
           ELSE recurrenceChanged(
                  [s2 EXCEPT !.mRRules[1] = [@ EXCEPT !.period = type,
                                                     !.frequency = freq,
                                                     !.duration = -1]],
                  3)

\* Recurrence::setMinutely, setHourly, setDaily, setMonthly, setYearly
setPeriod(s, type, freq) ==
  IF newRecurrenceTypeSet(s, freq) /\ setNewRecurrenceType(s, type, freq).mRRules # <<>>
  THEN updated(setNewRecurrenceType(s, type, freq))
  ELSE setNewRecurrenceType(s, type, freq)

\* Recurrence::setWeekly( int freq, int weekStart )
setWeekly(s, freq, weekStart) ==
  LET s1 == setNewRecurrenceType(s, "rWeekly", freq)
  IN  IF ~newRecurrenceTypeSet(s, freq) \/ s1.mRRules = <<>> THEN s1
      ELSE updated(setDefaultRule(s1, [s1.mRRules[1] EXCEPT !.weekStart = weekStart]))

\* the positions <<pos, i + 1>> of the bits i set in days and not yet in the
\* list, appended from bit 0 to bit 6
RECURSIVE appendDays(_, _, _, _)
appendDays(positions, pos, days, i) ==
  IF i > 6 THEN positions
  ELSE IF i \in days /\ <<pos, i + 1>> \notin seqRange(positions)
       THEN appendDays(Append(positions, <<pos, i + 1>>), pos, days, i + 1)
       ELSE appendDays(positions, pos, days, i + 1)

\* Recurrence::addMonthlyPos( short pos, const QBitArray &days ); days is the
\* set of the bits set
addMonthlyPosDays(s, pos, days) ==
  IF s.mRecurReadOnly \/ pos > 53 \/ pos < -53 THEN s
  ELSE LET s1 == defaultRRule(s, FALSE)
       IN  IF s1.mRRules = <<>> THEN s1
           ELSE LET positions == appendDays(s1.mRRules[1].byDays, pos, days, 0)
                IN  IF positions # s1.mRRules[1].byDays
                    THEN updated(setDefaultRule(s1, [s1.mRRules[1] EXCEPT !.byDays = positions]))
                    ELSE s1

\* Recurrence::setWeekly( int freq, const QBitArray &days, int weekStart )
setWeeklyDays(s, freq, days, weekStart) ==
  addMonthlyPosDays(setWeekly(s, freq, weekStart), 0, days)

\* Recurrence::addMonthlyPos( short pos, ushort day )
addMonthlyPos(s, pos, day) ==
  IF s.mRecurReadOnly \/ pos > 53 \/ pos < -53 THEN s
  ELSE LET s1 == defaultRRule(s, FALSE)
       IN  IF s1.mRRules = <<>> THEN s1
           ELSE IF <<pos, day>> \notin seqRange(s1.mRRules[1].byDays)
                THEN updated(setDefaultRule(s1, [s1.mRRules[1] EXCEPT !.byDays = Append(@, <<pos, day>>)]))
                ELSE s1

\* Recurrence::addMonthlyDate, and addYearlyDate, which calls it
addMonthlyDate(s, day) ==
  IF s.mRecurReadOnly \/ day > 31 \/ day < -31 THEN s
  ELSE LET s1 == defaultRRule(s, TRUE)
       IN  IF s1.mRRules = <<>> THEN s1
           ELSE IF day \notin seqRange(s1.mRRules[1].byMonthDays)
                THEN updated(setDefaultRule(s1, [s1.mRRules[1] EXCEPT !.byMonthDays = Append(@, day)]))
                ELSE s1

\* Recurrence::addYearlyDay
addYearlyDay(s, day) ==
  LET s1 == defaultRRule(s, FALSE)
  IN  IF s1.mRRules = <<>> THEN s1
      ELSE IF day \notin seqRange(s1.mRRules[1].byYearDays)
           THEN updated(setDefaultRule(s1, [s1.mRRules[1] EXCEPT !.byYearDays = Append(@, day)]))
           ELSE s1

\* Recurrence::addYearlyMonth
addYearlyMonth(s, month) ==
  IF s.mRecurReadOnly \/ month < 1 \/ month > 12 THEN s
  ELSE LET s1 == defaultRRule(s, FALSE)
       IN  IF s1.mRRules = <<>> THEN s1
           ELSE IF month \notin seqRange(s1.mRRules[1].byMonths)
                THEN updated(setDefaultRule(s1, [s1.mRRules[1] EXCEPT !.byMonths = Append(@, month)]))
                ELSE s1

\* Recurrence::setRDateTimes
setRDateTimes(s, rdates) ==
  IF s.mRecurReadOnly THEN s
  ELSE updated([s EXCEPT !.mRDateTimes = sortUniqueDt(rdates)])

\* Recurrence::addRDateTime
addRDateTime(s, rdate) ==
  IF s.mRecurReadOnly THEN s
  ELSE updated([s EXCEPT !.mRDateTimes = insertSorted(@, dtKey(@), rdate, rdate.utc)])

\* Recurrence::setRDates
setRDates(s, rdates) ==
  IF s.mRecurReadOnly THEN s
  ELSE updated([s EXCEPT !.mRDates = sortUniqueInt(rdates)])

\* Recurrence::addRDate
addRDate(s, rdate) ==
  IF s.mRecurReadOnly THEN s
  ELSE updated([s EXCEPT !.mRDates = insertSorted(@, @, rdate, rdate)])

\* Recurrence::setExDateTimes
setExDateTimes(s, exdates) ==
  IF s.mRecurReadOnly THEN s
  ELSE [s EXCEPT !.mExDateTimes = sortUniqueDt(exdates)]

\* Recurrence::addExDateTime
addExDateTime(s, exdate) ==
  IF s.mRecurReadOnly THEN s
  ELSE updated([s EXCEPT !.mExDateTimes = insertSorted(@, dtKey(@), exdate, exdate.utc)])

\* Recurrence::setExDates
setExDates(s, exdates) ==
  IF s.mRecurReadOnly THEN s
  ELSE updated([s EXCEPT !.mExDates = sortUniqueInt(exdates)])

\* Recurrence::addExDate
addExDate(s, exdate) ==
  IF s.mRecurReadOnly THEN s
  ELSE updated([s EXCEPT !.mExDates = insertSorted(@, @, exdate, exdate)])

(***************************************************************************)
(* The queries, each a function of the state s and its arguments.          *)
(***************************************************************************)
recurrenceTypeOf_hoursAllowed(rules) ==
  IF rules = <<>> THEN "rNone"
  ELSE LET rrule == rules[1]
           type  == rrule.period
       IN  IF rrule.bySetPos # <<>> \/ rrule.bySeconds # <<>> \/ rrule.byWeekNumbers # <<>>
           THEN "rOther"
           ELSE IF rrule.byMinutes # <<>> THEN "rOther"
           ELSE IF \/ rrule.byYearDays # <<>> /\ type # "rYearly"
                   \/ rrule.byMonths # <<>> /\ type # "rYearly"
           THEN "rOther"
           ELSE IF rrule.byDays # <<>> /\ type \notin {"rYearly", "rMonthly", "rWeekly"}
           THEN "rOther"
           ELSE CASE type = "rNone" -> "rNone"
                  [] type = "rMinutely" -> "rMinutely"
                  [] type = "rHourly" -> "rHourly"
                  [] type = "rDaily" -> "rDaily"
                  [] type = "rWeekly" -> "rWeekly"
                  [] type = "rMonthly" ->
                       IF rrule.byDays = <<>> THEN "rMonthlyDay"
                       ELSE IF rrule.byMonthDays = <<>> THEN "rMonthlyPos"
                       ELSE "rOther"
                  [] type = "rYearly" ->
                       IF rrule.byDays # <<>>
                       THEN IF rrule.byMonthDays = <<>> /\ rrule.byYearDays = <<>>
                            THEN "rYearlyPos" ELSE "rOther"
                       ELSE IF rrule.byYearDays # <<>>
                       THEN IF rrule.byMonths = <<>> /\ rrule.byMonthDays = <<>>
                            THEN "rYearlyDay" ELSE "rOther"
                       ELSE "rYearlyMonth"
                  [] OTHER -> "rOther"

\* Recurrence::recurrenceType( const RecurrenceRule *rrule ) of
\* defaultRRuleConst(): the first of the rules, null when there is none
recurrenceTypeOf(rules) ==
  IF rules = <<>> THEN "rNone"
  ELSE LET rrule == rules[1]
           type  == rrule.period
       IN  IF rrule.bySetPos # <<>> \/ rrule.bySeconds # <<>> \/ rrule.byWeekNumbers # <<>>
           THEN "rOther"
           ELSE IF rrule.byMinutes # <<>> \/ rrule.byHours # <<>> THEN "rOther"
           ELSE IF \/ rrule.byYearDays # <<>> /\ type # "rYearly"
                   \/ rrule.byMonths # <<>> /\ type # "rYearly"
           THEN "rOther"
           ELSE IF rrule.byDays # <<>> /\ type \notin {"rYearly", "rMonthly", "rWeekly"}
           THEN "rOther"
           ELSE CASE type = "rNone" -> "rNone"
                  [] type = "rMinutely" -> "rMinutely"
                  [] type = "rHourly" -> "rHourly"
                  [] type = "rDaily" -> "rDaily"
                  [] type = "rWeekly" -> "rWeekly"
                  [] type = "rMonthly" ->
                       IF rrule.byDays = <<>> THEN "rMonthlyDay"
                       ELSE IF rrule.byMonthDays = <<>> THEN "rMonthlyPos"
                       ELSE "rOther"
                  [] type = "rYearly" ->
                       IF rrule.byDays # <<>>
                       THEN IF rrule.byMonthDays = <<>> /\ rrule.byYearDays = <<>>
                            THEN "rYearlyPos" ELSE "rOther"
                       ELSE IF rrule.byYearDays # <<>>
                       THEN IF rrule.byMonths = <<>> /\ rrule.byMonthDays = <<>>
                            THEN "rYearlyDay" ELSE "rOther"
                       ELSE "rYearlyMonth"
                  [] OTHER -> "rOther"

\* Recurrence::recurrenceType(): the state after the call, whose mCachedType
\* is the value returned
recurrenceType(s) ==
  [s EXCEPT !.mCachedType = IF @ = "rMax" THEN recurrenceTypeOf(s.mRRules) ELSE @]

\* Recurrence::startDate
startDate(s) == date(s.mStartDateTime)

\* the results of RecurrenceRule::recurTimesOn of the rules from index i on
RECURSIVE rulesRecurTimesOn(_, _, _, _)
rulesRecurTimesOn(rules, qd, timeSpec, i) ==
  IF i > Len(rules) THEN <<>>
  ELSE ruleRecurTimesOn(rules[i], qd, timeSpec) \o rulesRecurTimesOn(rules, qd, timeSpec, i + 1)

\* the results of RecurrenceRule::timesInInterval of the rules from index i on
RECURSIVE rulesTimesInInterval(_, _, _, _)
rulesTimesInInterval(rules, start, end, i) ==
  IF i > Len(rules) THEN <<>>
  ELSE ruleTimesInInterval(rules[i], start, end) \o rulesTimesInInterval(rules, start, end, i + 1)

\* the loops of recurTimesOn over a sorted date/time list: the times of day of
\* the elements on day qd of zone timeSpec, up to the first element on another
\* day that follows one
RECURSIVE timesOfDay(_, _, _, _, _)
timesOfDay(list, qd, timeSpec, i, foundDate) ==
  IF i > Len(list) THEN <<>>
  ELSE LET dt == toTimeSpec(list[i], timeSpec)
       IN  IF date(dt) = qd
           THEN <<time(dt)>> \o timesOfDay(list, qd, timeSpec, i + 1, TRUE)
           ELSE IF foundDate THEN <<>>
           ELSE timesOfDay(list, qd, timeSpec, i + 1, FALSE)

\* the first index at or behind st of an element with key k, 0 if none
findSorted(keys, k, st) ==
  LET hit == {j \in DOMAIN keys : j >= st /\ keys[j] = k}
  IN  IF hit = {} THEN 0 ELSE CHOOSE j \in hit : \A h \in hit : j <= h

\* the loop "j = times.removeSorted( extimes[i], st ); if ( j >= 0 ) st = j"
RECURSIVE removeExTimes(_, _, _, _)
removeExTimes(times, extimes, i, st) ==
  IF i > Len(extimes) THEN times
  ELSE LET j == findSorted(times, extimes[i], st)
       IN  IF j > 0 THEN removeExTimes(removeAt(times, j), extimes, i + 1, j)
           ELSE removeExTimes(times, extimes, i + 1, st)

RECURSIVE removeExDateTimes(_, _, _, _)
removeExDateTimes(times, extimes, i, st) ==
  IF i > Len(extimes) THEN times
  ELSE LET j == findSorted(dtKey(times), extimes[i].utc, st)
       IN  IF j > 0 THEN removeExDateTimes(removeAt(times, j), extimes, i + 1, j)
           ELSE removeExDateTimes(times, extimes, i + 1, st)

\* the first while of a round of that loop: idt moves past the times whose
\* date is before the exDate
RECURSIVE skipBefore(_, _, _)
skipBefore(times, exDate, idt) ==
  IF idt <= Len(times) /\ date(times[idt]) < exDate
  THEN skipBefore(times, exDate, idt + 1)
  ELSE idt

\* the second while: the run of times on the exDate that starts at idt is
\* removed
RECURSIVE removeRun(_, _, _)
removeRun(times, exDate, idt) ==
  IF idt <= Len(times) /\ date(times[idt]) = exDate
  THEN removeRun(removeAt(times, idt), exDate, idt)
  ELSE times

\* the loop of timesInInterval that removes the times on the days of mExDates:
\* one round for each exDate, idt kept from round to round
RECURSIVE removeExDates(_, _, _, _)
removeExDates(times, exDates, i, idt) ==
  IF i > Len(exDates) \/ idt > Len(times) THEN times
  ELSE removeExDates(removeRun(times, exDates[i], skipBefore(times, exDates[i], idt)),
                     exDates, i + 1, skipBefore(times, exDates[i], idt))

\* Recurrence::recurTimesOn
recurTimesOn(s, qd, timeSpec) ==
  IF containsSorted(s.mExDates, qd) THEN <<>>
  ELSE IF s.mFloating /\ \E i \in DOMAIN s.mExRules : ruleRecursOn(s.mExRules[i], qd, timeSpec)
  THEN <<>>
  ELSE LET dt      == toTimeSpec(s.mStartDateTime, timeSpec)
           times   == sortUniqueInt(
                        (IF date(dt) = qd THEN <<time(dt)>> ELSE <<>>)
                        \o timesOfDay(s.mRDateTimes, qd, timeSpec, 1, FALSE)
                        \o rulesRecurTimesOn(s.mRRules, qd, timeSpec, 1))
           extimes == sortUniqueInt(
                        timesOfDay(s.mExDateTimes, qd, timeSpec, 1, FALSE)
                        \o (IF ~s.mFloating THEN rulesRecurTimesOn(s.mExRules, qd, timeSpec, 1) ELSE <<>>))
       IN  removeExTimes(times, extimes, 1, 1)

\* Recurrence::recursOn
recursOn(s, qd, timeSpec) ==
  IF dtLess(KDateTime(qd, SecsPerDay - 1, timeSpec), s.mStartDateTime) THEN FALSE
  ELSE IF containsSorted(s.mExDates, qd) THEN FALSE
  ELSE IF s.mFloating /\ \E i \in DOMAIN s.mExRules : ruleRecursOn(s.mExRules[i], qd, timeSpec)
  THEN FALSE
  ELSE IF containsSorted(s.mRDates, qd) THEN TRUE
  ELSE LET recurs == \/ startDate(s) = qd
                     \/ \E i \in DOMAIN s.mRDateTimes :
                          date(toTimeSpec(s.mRDateTimes[i], timeSpec)) = qd
                     \/ \E i \in DOMAIN s.mRRules : ruleRecursOn(s.mRRules[i], qd, timeSpec)
           exon   == \/ \E i \in DOMAIN s.mExDateTimes :
                          date(toTimeSpec(s.mExDateTimes[i], timeSpec)) = qd
                     \/ /\ ~s.mFloating
                        /\ \E i \in DOMAIN s.mExRules : ruleRecursOn(s.mExRules[i], qd, timeSpec)
       IN  IF ~recurs THEN FALSE
           ELSE IF ~exon THEN recurs
           ELSE recurTimesOn(s, qd, timeSpec) # <<>>

\* recursAt without the look into mExDates
recursAt_exDatesIgnored(s, dt) ==
  LET dtrecur == toTimeSpec(dt, s.mStartDateTime.z)
  IN  IF containsSorted(dtKey(s.mExDateTimes), dtrecur.utc)
      THEN FALSE
      ELSE IF \E i \in DOMAIN s.mExRules : ruleRecursAt(s.mExRules[i], dtrecur) THEN FALSE
      ELSE IF \/ dtEqual(s.mStartDateTime, dtrecur)
              \/ containsSorted(dtKey(s.mRDateTimes), dtrecur.utc)
      THEN TRUE
      ELSE \E i \in DOMAIN s.mRRules : ruleRecursAt(s.mRRules[i], dtrecur)

\* Recurrence::recursAt
recursAt(s, dt) ==
  LET dtrecur == toTimeSpec(dt, s.mStartDateTime.z)
  IN  IF \/ containsSorted(dtKey(s.mExDateTimes), dtrecur.utc)
         \/ containsSorted(s.mExDates, date(dtrecur))
      THEN FALSE
      ELSE IF \E i \in DOMAIN s.mExRules : ruleRecursAt(s.mExRules[i], dtrecur) THEN FALSE
      ELSE IF \/ dtEqual(s.mStartDateTime, dtrecur)
              \/ containsSorted(dtKey(s.mRDateTimes), dtrecur.utc)
      THEN TRUE
      ELSE \E i \in DOMAIN s.mRRules : ruleRecursAt(s.mRRules[i], dtrecur)

\* endDateTime without the last of mRDateTimes
endDateTime_rDateTimesIgnored(s) ==
  IF \E i \in DOMAIN s.mRRules : ~isValid(ruleEndDt(s.mRRules[i])) THEN NoTime
  ELSE LET dts == sortUniqueDt(
                    <<s.mStartDateTime>>
                    \o (IF s.mRDates # <<>>
                        THEN <<KDateTime(s.mRDates[Len(s.mRDates)], 0, s.mStartDateTime.z)>>
                        ELSE <<>>)
                    \o [i \in DOMAIN s.mRRules |-> ruleEndDt(s.mRRules[i])])
       IN  IF dts = <<>> THEN NoTime ELSE dts[Len(dts)]

\* Recurrence::endDateTime
endDateTime(s) ==
  IF \E i \in DOMAIN s.mRRules : ~isValid(ruleEndDt(s.mRRules[i])) THEN NoTime
  ELSE LET dts == sortUniqueDt(
                    <<s.mStartDateTime>>
                    \o (IF s.mRDates # <<>>
                        THEN <<KDateTime(s.mRDates[Len(s.mRDates)], 0, s.mStartDateTime.z)>>
                        ELSE <<>>)
                    \o (IF s.mRDateTimes # <<>>
                        THEN <<s.mRDateTimes[Len(s.mRDateTimes)]>>
                        ELSE <<>>)
                    \o [i \in DOMAIN s.mRRules |-> ruleEndDt(s.mRRules[i])])
       IN  IF dts = <<>> THEN NoTime ELSE dts[Len(dts)]

\* QDate(): the invalid date
NoDate == -1

\* Recurrence::endDate
endDate(s) == IF isValid(endDateTime(s)) THEN date(endDateTime(s)) ELSE NoDate

\* the mRDates promoted to instants: kdt( startDateTime() ); kdt.setDate( mRDates[i] )
rDatesPromoted(s) == [i \in DOMAIN s.mRDates |-> setDate(s.mStartDateTime, s.mRDates[i])]

\* Recurrence::timesInInterval
timesInInterval(s, start, end) ==
  LET times   == sortUniqueDt(rulesTimesInInterval(s.mRRules, start, end, 1)
                              \o s.mRDateTimes
                              \o rDatesPromoted(s))
      times2  == removeExDates(times, s.mExDates, 1, 1)
      extimes == sortUniqueDt(rulesTimesInInterval(s.mExRules, start, end, 1) \o s.mExDateTimes)
  IN  removeExDateTimes(times2, extimes, 1, 1)

(***************************************************************************)
(* getNextDateTime and getPreviousDateTime.  A call in progress is a       *)
(* record st: fn says which of the two was called ("next", "prev"), pc     *)
(* whether its loop runs ("loop") or it has returned ("done"), loop is the *)
(* loop counter, dt is nextDT / prevDT and result is the value returned.   *)
(***************************************************************************)
\* the most rounds of the loops: while ( loop < 1000 )
LoopLimit == 1000

\* the valid date/times of a sequence, in order
validOnly(seq) ==
  LET keep == {i \in DOMAIN seq : isValid(seq[i])}
      F[i \in 0..Len(seq)] ==
        IF i = 0 THEN <<>>
        ELSE IF i \in keep THEN Append(F[i - 1], seq[i]) ELSE F[i - 1]
  IN  F[Len(seq)]

\* the list dates of getNextDateTime without the promoted mRDates
nextDates_rDatesIgnored(s, nextDT) ==
  LET i == findGT(dtKey(s.mRDateTimes), nextDT.utc)
  IN  sortUniqueDt(
        (IF dtLess(nextDT, s.mStartDateTime) THEN <<s.mStartDateTime>> ELSE <<>>)
        \o (IF i > 0 THEN <<s.mRDateTimes[i]>> ELSE <<>>)
        \o validOnly([j \in DOMAIN s.mRRules |-> ruleGetNextDate(s.mRRules[j], nextDT)]))

\* getNextDateTime: the list dates of one round, sorted
nextDates(s, nextDT) ==
  LET i      == findGT(dtKey(s.mRDateTimes), nextDT.utc)
      kdts   == rDatesPromoted(s)
      later  == {j \in DOMAIN kdts : dtLess(nextDT, kdts[j])}
      firstj == IF later = {} THEN 0 ELSE CHOOSE j \in later : \A h \in later : j <= h
  IN  sortUniqueDt(
        (IF dtLess(nextDT, s.mStartDateTime) THEN <<s.mStartDateTime>> ELSE <<>>)
        \o (IF i > 0 THEN <<s.mRDateTimes[i]>> ELSE <<>>)
        \o (IF firstj > 0 THEN <<kdts[firstj]>> ELSE <<>>)
        \o validOnly([j \in DOMAIN s.mRRules |-> ruleGetNextDate(s.mRRules[j], nextDT)]))

\* the list dates of getPreviousDateTime without the start of the recurrence
prevDates_startIgnored(s, prevDT) ==
  LET i       == findLT(dtKey(s.mRDateTimes), prevDT.utc)
      kdts    == rDatesPromoted(s)
      earlier == {j \in DOMAIN kdts : dtLess(kdts[j], prevDT)}
      lastj   == IF earlier = {} THEN 0 ELSE CHOOSE j \in earlier : \A h \in earlier : j >= h
  IN  sortUniqueDt(
        (IF i > 0 THEN <<s.mRDateTimes[i]>> ELSE <<>>)
        \o (IF lastj > 0 THEN <<kdts[lastj]>> ELSE <<>>)
        \o validOnly([j \in DOMAIN s.mRRules |-> ruleGetPreviousDate(s.mRRules[j], prevDT)]))

\* getPreviousDateTime: the list dates of one round, sorted
prevDates(s, prevDT) ==
  LET i       == findLT(dtKey(s.mRDateTimes), prevDT.utc)
      kdts    == rDatesPromoted(s)
      earlier == {j \in DOMAIN kdts : dtLess(kdts[j], prevDT)}
      lastj   == IF earlier = {} THEN 0 ELSE CHOOSE j \in earlier : \A h \in earlier : j >= h
  IN  sortUniqueDt(
        (IF dtLess(s.mStartDateTime, prevDT) THEN <<s.mStartDateTime>> ELSE <<>>)
        \o (IF i > 0 THEN <<s.mRDateTimes[i]>> ELSE <<>>)
        \o (IF lastj > 0 THEN <<kdts[lastj]>> ELSE <<>>)
        \o validOnly([j \in DOMAIN s.mRRules |-> ruleGetPreviousDate(s.mRRules[j], prevDT)]))

allowed_exRulesIgnored(s, dt) ==
  /\ ~containsSorted(s.mExDates, date(dt))
  /\ ~containsSorted(dtKey(s.mExDateTimes), dt.utc)

\* the test of both loops that a date/time is not excluded, explicitly or by
\* an exrule
allowed(s, dt) ==
  /\ ~containsSorted(s.mExDates, date(dt))
  /\ ~containsSorted(dtKey(s.mExDateTimes), dt.utc)
  /\ \A i \in DOMAIN s.mExRules : ~ruleRecursAt(s.mExRules[i], dt)

\* a loop that runs one round more
loopGoesOn_oneMore(loop) == loop < LoopLimit + 1

\* the loop condition: while ( loop < 1000 )
loopGoesOn(loop) == loop < LoopLimit

\* one evaluation of the loop condition and, if it holds, one round
searchStep(s, st) ==
  IF ~loopGoesOn(st.loop) THEN [st EXCEPT !.pc = "done", !.result = NoTime]
  ELSE LET dates == IF st.fn = "next" THEN nextDates(s, st.dt) ELSE prevDates(s, st.dt)
           dt    == IF st.fn = "next" THEN dates[1] ELSE dates[Len(dates)]
       IN  IF dates = <<>>
           THEN [st EXCEPT !.pc = "done", !.loop = @ + 1, !.result = NoTime]
           ELSE IF allowed(s, dt)
           THEN [st EXCEPT !.pc = "done", !.loop = @ + 1, !.dt = dt, !.result = dt]
           ELSE [st EXCEPT !.loop = @ + 1, !.dt = dt]

RECURSIVE searchRun(_, _)
searchRun(s, st) == IF st.pc = "done" THEN st.result ELSE searchRun(s, searchStep(s, st))

\* Recurrence::getNextDateTime
getNextDateTime(s, preDateTime) ==
  searchRun(s, [pc |-> "loop", fn |-> "next", loop |-> 0, dt |-> preDateTime, result |-> NoTime])

\* Recurrence::getPreviousDateTime
getPreviousDateTime(s, afterDateTime) ==
  searchRun(s, [pc |-> "loop", fn |-> "prev", loop |-> 0, dt |-> afterDateTime, result |-> NoTime])

(***************************************************************************)
(* The operations as actions.  A mutator runs while no search is in        *)
(* progress; updates counts from zero in each.  The add* actions stop at   *)
(* the bounds of the model.                                                *)
(***************************************************************************)
called == [d EXCEPT !.updates = 0]

SetFloats(floats) ==
  /\ search.pc = "idle"
  /\ d' = setFloats(called, floats)
  /\ UNCHANGED <<search, shifts, notify, copy, fb>>

SetStartDateTime(start) ==
  /\ search.pc = "idle"
  /\ d' = setStartDateTime(called, start)
  /\ UNCHANGED <<search, shifts, notify, copy, fb>>

\* addRRule with a rule built as defaultRRule builds it: starting at the
\* start of the recurrence
AddRRule(rrule) ==
  /\ search.pc = "idle"
  /\ Len(d.mRRules) < MaxRules
  /\ d' = addRRule(called, [rrule EXCEPT !.start = d.mStartDateTime])
  /\ UNCHANGED <<search, shifts, notify, copy, fb>>

AddExRule(exrule) ==
  /\ search.pc = "idle"
  /\ Len(d.mExRules) < MaxRules
  /\ d' = addExRule(called, [exrule EXCEPT !.start = d.mStartDateTime])
  /\ UNCHANGED <<search, shifts, notify, copy, fb>>

AddRDateTime(rdate) ==
  /\ search.pc = "idle"
  /\ Len(d.mRDateTimes) < MaxLen
  /\ d' = addRDateTime(called, rdate)
  /\ UNCHANGED <<search, shifts, notify, copy, fb>>

AddRDate(rdate) ==
  /\ search.pc = "idle"
  /\ Len(d.mRDates) < MaxLen
  /\ d' = addRDate(called, rdate)
  /\ UNCHANGED <<search, shifts, notify, copy, fb>>

AddExDateTime(exdate) ==
  /\ search.pc = "idle"
  /\ Len(d.mExDateTimes) < MaxLen
  /\ d' = addExDateTime(called, exdate)
  /\ UNCHANGED <<search, shifts, notify, copy, fb>>

AddExDate(exdate) ==
  /\ search.pc = "idle"
  /\ Len(d.mExDates) < MaxLen
  /\ d' = addExDate(called, exdate)
  /\ UNCHANGED <<search, shifts, notify, copy, fb>>

(***************************************************************************)
(* Specification Spec: a recurrence built from a start, rules, dates and   *)
(* date/times, all in UTC, on the days 0 to 4; the queries are asked in    *)
(* every state it reaches.  The start is set once: setting it again to the *)
(* same value changes nothing a query reads.                               *)
(***************************************************************************)
Hours(h) == h * SecsPerHour

Starts == {KDateTime(1, Hours(10), "UTC")}

RDays == {0, 2, 4}
ExDays == {2, 3}

RTimes == {KDateTime(0, Hours(10), "UTC"), KDateTime(3, Hours(22), "UTC")}
ExTimes == {KDateTime(2, Hours(10), "UTC"), KDateTime(3, Hours(10), "UTC")}

RRulePalette ==
  {RecurrenceRule("rDaily", 1, NoTime, 3, NoTime),
   RecurrenceRule("rDaily", 1, NoTime, -1, NoTime),
   RecurrenceRule("rHourly", 12, NoTime, 0, KDateTime(3, Hours(10), "UTC"))}

ExRulePalette == {RecurrenceRule("rDaily", 2, NoTime, 2, NoTime)}

Init ==
  /\ d = Private
  /\ search = idle
  /\ shifts = 0
  /\ notify = quiet
  /\ copy = uncopied
  /\ fb = FreeBusy

Next ==
  \/ \E start \in Starts \ {d.mStartDateTime} : SetStartDateTime(start)
  \/ \E rrule \in RRulePalette : AddRRule(rrule)
  \/ \E exrule \in ExRulePalette : AddExRule(exrule)
  \/ \E rdate \in RTimes : AddRDateTime(rdate)
  \/ \E rdate \in RDays : AddRDate(rdate)
  \/ \E exdate \in ExTimes : AddExDateTime(exdate)
  \/ \E exdate \in ExDays : AddExDate(exdate)

Spec == Init /\ [][Next]_vars

(***************************************************************************)
(* What the queries are checked against: the occurrences of the            *)
(* recurrence stated as sets, without the loops of the code.  Rule         *)
(* occurrences are enumerated up to index Horizon, which reaches beyond    *)
(* every day the probes and the stored dates lie on.                       *)
(***************************************************************************)
Horizon == 8
ProbeDays == 0..4
ProbeZones == {"UTC", "P1"}
ProbeTimes ==
  {KDateTime(qd, tm, "UTC") :
     qd \in ProbeDays, tm \in {Hours(10), Hours(22)}}

utcs(seq) == {seq[i].utc : i \in DOMAIN seq}

\* the absolute moments at which a rule occurs, up to the horizon
ruleMoments(r) ==
  {ruleOcc(r, k).utc : k \in {j \in 0..Horizon : ruleHasIndex(r, j)}}

\* the candidates: the anchor, the stored rDateTimes, the stored rDates at the
\* anchor's time of day, the occurrences of the rRules
candidateMoments(s) ==
  {s.mStartDateTime.utc} \cup utcs(s.mRDateTimes)
  \cup {KDateTime(s.mRDates[i], time(s.mStartDateTime), s.mStartDateTime.z).utc :
          i \in DOMAIN s.mRDates}
  \cup UNION {ruleMoments(s.mRRules[i]) : i \in DOMAIN s.mRRules}

\* excluded: the date is in exDates, the moment is in exDateTimes, or an
\* exRule occurs at it
excludedMoment(s, u) ==
  \/ u \in utcs(s.mExDateTimes)
  \/ date([utc |-> u, z |-> s.mStartDateTime.z, dateOnly |-> FALSE]) \in seqRange(s.mExDates)
  \/ \E i \in DOMAIN s.mExRules : u \in ruleMoments(s.mExRules[i])

admissibleMoments(s) == {u \in candidateMoments(s) : ~excludedMoment(s, u)}

minOf(S) == CHOOSE x \in S : \A y \in S : x <= y
maxOf(S) == CHOOSE x \in S : \A y \in S : x >= y

anchored == isValid(d.mStartDateTime)

\* C1: getNextDateTime(after) is the smallest candidate later than after that
\* is not excluded, and is invalid exactly when there is none.
C1_NextIsFirstAdmissible ==
  anchored =>
    LET admissible == admissibleMoments(d)
    IN  \A after \in ProbeTimes :
          LET later == {u \in admissible : u > after.utc}
              next  == getNextDateTime(d, after)
          IN  IF later = {} THEN ~isValid(next)
              ELSE isValid(next) /\ next.utc = minOf(later)

\* C1 witness: a search that skipped an excluded candidate and returned a
\* later one (the scenario S3: a daily rule with an exDate)
C1_Witness ==
  /\ anchored
  /\ \E after \in ProbeTimes :
       LET next == getNextDateTime(d, after)
       IN  /\ isValid(next)
           /\ \E u \in candidateMoments(d) :
                u > after.utc /\ u < next.utc /\ excludedMoment(d, u)

\* C2: exclusion precedence: recursAt(t) is false when t is in exDateTimes,
\* when its date is in exDates and when an exRule recurs at t.
C2_ExclusionPrecedence ==
  anchored =>
    \A t \in ProbeTimes : excludedMoment(d, t.utc) => ~recursAt(d, t)

\* C2 witness: an instant that is a candidate and excluded
C2_Witness ==
  /\ anchored
  /\ \E t \in ProbeTimes :
       /\ t.utc \in candidateMoments(d)
       /\ excludedMoment(d, t.utc)
       /\ ~recursAt(d, t)

\* C3: recursAt(t) is true if and only if t is an element of
\* timesInInterval(t, t).
C3_RecursAtIffInInterval ==
  anchored =>
    \A t \in ProbeTimes : recursAt(d, t) <=> t.utc \in utcs(timesInInterval(d, t, t))

\* C4: recursOn(d, z) is true if and only if recurTimesOn(d, z) is non-empty.
C4_RecursOnIffTimesOn ==
  anchored =>
    \A qd \in ProbeDays, z \in ProbeZones :
      recursOn(d, qd, z) <=> recurTimesOn(d, qd, z) # <<>>

\* C5: every instant returned by timesInInterval(start, end) lies in the closed
\* interval [start, end].
C5_TimesWithinInterval ==
  anchored =>
    \A start \in ProbeTimes, end \in ProbeTimes :
      \A u \in utcs(timesInInterval(d, start, end)) : start.utc <= u /\ u <= end.utc

\* C9: getPreviousDateTime(before) is the largest candidate earlier than before
\* that is not excluded, and whenever n = getNextDateTime(t) and
\* p = getPreviousDateTime(n) are both valid, p <= t.
C9_PreviousMirrorsNext ==
  anchored =>
    LET admissible == admissibleMoments(d)
    IN  \A t \in ProbeTimes :
          LET earlier == {u \in admissible : u < t.utc}
              prev    == getPreviousDateTime(d, t)
              n       == getNextDateTime(d, t)
              p       == getPreviousDateTime(d, n)
          IN  /\ IF earlier = {} THEN ~isValid(prev)
                 ELSE isValid(prev) /\ prev.utc = maxOf(earlier)
              /\ (isValid(n) /\ isValid(p)) => p.utc <= t.utc

\* C9 witness: a backward search that skipped an excluded candidate, and a
\* forward search followed by a backward one that came back before its start
C9_Witness ==
  /\ anchored
  /\ \E t \in ProbeTimes :
       LET prev == getPreviousDateTime(d, t)
       IN  /\ isValid(prev)
           /\ \E u \in candidateMoments(d) :
                u < t.utc /\ u > prev.utc /\ excludedMoment(d, u)
  /\ \E t \in ProbeTimes :
       LET n == getNextDateTime(d, t)
           p == getPreviousDateTime(d, n)
       IN  isValid(n) /\ isValid(p) /\ p.utc < t.utc

\* the rules that never end
neverEnds(r) == r.duration < 0

\* C10: endDateTime() is invalid if an inclusion rule never ends; otherwise it
\* is the latest of the anchor, the last rDate (at the start of its day), the
\* last rDateTime and the end of every inclusion rule.
C10_EndDateTime ==
  anchored =>
    IF \E i \in DOMAIN d.mRRules : neverEnds(d.mRRules[i])
    THEN ~isValid(endDateTime(d))
    ELSE /\ isValid(endDateTime(d))
         /\ endDateTime(d).utc =
              maxOf({d.mStartDateTime.utc}
                    \cup {KDateTime(d.mRDates[i], 0, d.mStartDateTime.z).utc :
                            i \in {Len(d.mRDates)} \ {0}}
                    \cup {d.mRDateTimes[i].utc : i \in {Len(d.mRDateTimes)} \ {0}}
                    \cup {ruleEndDt(d.mRRules[i]).utc : i \in DOMAIN d.mRRules})

\* C10 witnesses: a recurrence with a rule that never ends, and one whose end
\* is the end of a rule, later than the anchor and the stored dates
C10_WitnessNever ==
  /\ anchored
  /\ \E i \in DOMAIN d.mRRules : neverEnds(d.mRRules[i])
  /\ d.mRDateTimes # <<>>
  /\ ~isValid(endDateTime(d))

C10_Witness ==
  /\ anchored
  /\ d.mRRules # <<>> /\ d.mRDates # <<>> /\ d.mRDateTimes # <<>>
  /\ \A i \in DOMAIN d.mRRules : ~neverEnds(d.mRRules[i])
  /\ endDateTime(d).utc > d.mStartDateTime.utc
  /\ endDateTime(d).utc > d.mRDateTimes[Len(d.mRDateTimes)].utc
  /\ endDateTime(d).utc = ruleEndDt(d.mRRules[1]).utc

(***************************************************************************)
(* Specification SpecSearch: getNextDateTime and getPreviousDateTime taken *)
(* one round of their loop at a time, on recurrences whose exrules exclude *)
(* long runs of occurrences.                                               *)
(***************************************************************************)
StartNext(preDateTime) ==
  /\ search.pc = "idle"
  /\ search' = [pc |-> "loop", fn |-> "next", loop |-> 0, dt |-> preDateTime,
                result |-> NoTime]
  /\ UNCHANGED <<d, shifts, notify, copy, fb>>

StartPrev(afterDateTime) ==
  /\ search.pc = "idle"
  /\ search' = [pc |-> "loop", fn |-> "prev", loop |-> 0, dt |-> afterDateTime,
                result |-> NoTime]
  /\ UNCHANGED <<d, shifts, notify, copy, fb>>

\* the loop condition and, if it holds, one round of the loop
SearchStep ==
  /\ search.pc = "loop"
  /\ search' = searchStep(d, search)
  /\ UNCHANGED <<d, shifts, notify, copy, fb>>

\* the caller has taken the result
SearchReturn ==
  /\ search.pc = "done"
  /\ search' = idle
  /\ UNCHANGED <<d, shifts, notify, copy, fb>>

SearchStart == KDateTime(1, Hours(10), "UTC")

\* a recurrence starting at SearchStart with a daily rrule that never ends,
\* and a daily exrule from the day exFrom on with duration exDuration
excludedRun(exFrom, exDuration) ==
  addExRule(
    addRRule(setStartDateTime(Private, SearchStart),
             RecurrenceRule("rDaily", 1, SearchStart, -1, NoTime)),
    RecurrenceRule("rDaily", 1, KDateTime(exFrom, Hours(10), "UTC"), exDuration, NoTime))

SearchConfigs ==
  {setStartDateTime(Private, SearchStart),
   excludedRun(1, -1),
   excludedRun(1, LoopLimit),
   excludedRun(1, LoopLimit - 1),
   excludedRun(5, -1)}

SearchFrom ==
  {KDateTime(0, Hours(10), "UTC"), KDateTime(2, Hours(22), "UTC")}

SearchBefore ==
  {KDateTime(3, Hours(10), "UTC"),
   KDateTime(LoopLimit + 4, Hours(10), "UTC"),
   KDateTime(LoopLimit + 5, Hours(10), "UTC")}

InitSearch ==
  /\ d \in SearchConfigs
  /\ search = idle
  /\ shifts = 0
  /\ notify = quiet
  /\ copy = uncopied
  /\ fb = FreeBusy

NextSearch ==
  \/ \E preDateTime \in SearchFrom : StartNext(preDateTime)
  \/ \E afterDateTime \in SearchBefore : StartPrev(afterDateTime)
  \/ SearchStep
  \/ SearchReturn

SpecSearch == InitSearch /\ [][NextSearch]_vars

\* a rule has an occurrence later than dt / earlier than dt
ruleOccursAfter(r, dt) ==
  LET last == ruleLastIndex(r)
  IN  last = -2 \/ (last >= 0 /\ ruleOcc(r, last).utc > dt.utc)

ruleOccursBefore(r, dt) == ruleLastIndex(r) # -1 /\ ruleOcc(r, 0).utc < dt.utc

\* no candidate lies beyond dt in the direction of the search
noCandidate(s, fn, dt) ==
  LET promoted == utcs(rDatesPromoted(s))
      stored   == {s.mStartDateTime.utc} \cup utcs(s.mRDateTimes) \cup promoted
  IN  IF fn = "next"
      THEN /\ \A u \in stored : u <= dt.utc
           /\ \A i \in DOMAIN s.mRRules : ~ruleOccursAfter(s.mRRules[i], dt)
      ELSE /\ \A u \in stored : u >= dt.utc
           /\ \A i \in DOMAIN s.mRRules : ~ruleOccursBefore(s.mRRules[i], dt)

\* C8: getNextDateTime and getPreviousDateTime run at most 1000 rounds: the
\* loop counter never passes 1000 and every step of the loop either returns or
\* adds one to it; after 1000 rounds that each found an excluded candidate the
\* result is invalid, and a round that finds no candidate returns invalid at
\* once.
C8_SearchBounded ==
  /\ [](search.loop <= LoopLimit)
  /\ [][search.pc = "loop" =>
          /\ search'.pc = "done" \/ search'.loop = search.loop + 1
          /\ search.loop = LoopLimit =>
               search'.pc = "done" /\ ~isValid(search'.result)
          /\ (search.loop < LoopLimit /\ noCandidate(d, search.fn, search.dt)) =>
               search'.pc = "done" /\ ~isValid(search'.result)]_vars

\* C8 witness: a forward search that gave up after 1000 excluded candidates
\* although the rrule's next occurrence is not excluded
C8_Witness ==
  /\ search.pc = "done" /\ search.fn = "next"
  /\ search.loop = LoopLimit
  /\ ~isValid(search.result)
  /\ LET beyond == ruleOcc(d.mRRules[1], LoopLimit)
     IN  beyond.utc > search.dt.utc /\ recursAt(d, beyond)

(***************************************************************************)
(* Specification SpecShift: the four date lists under their set* and add*  *)
(* operations, shiftTimes and clear.  The date/times lie half an hour      *)
(* before and half an hour after the moment zone "DST" leaves daylight     *)
(* saving time, and a day later.                                           *)
(***************************************************************************)
SetRDateTimes(rdates) ==
  /\ search.pc = "idle"
  /\ d' = setRDateTimes(called, rdates)
  /\ UNCHANGED <<search, shifts, notify, copy, fb>>

SetRDates(rdates) ==
  /\ search.pc = "idle"
  /\ d' = setRDates(called, rdates)
  /\ UNCHANGED <<search, shifts, notify, copy, fb>>

SetExDateTimes(exdates) ==
  /\ search.pc = "idle"
  /\ d' = setExDateTimes(called, exdates)
  /\ UNCHANGED <<search, shifts, notify, copy, fb>>

SetExDates(exdates) ==
  /\ search.pc = "idle"
  /\ d' = setExDates(called, exdates)
  /\ UNCHANGED <<search, shifts, notify, copy, fb>>

ShiftTimes(oldSpec, newSpec) ==
  /\ search.pc = "idle"
  /\ shifts < MaxShifts
  /\ d' = shiftTimes(called, oldSpec, newSpec)
  /\ shifts' = shifts + 1
  /\ UNCHANGED <<search, notify, copy, fb>>

Clear ==
  /\ search.pc = "idle"
  /\ d' = clear(called)
  /\ UNCHANGED <<search, shifts, notify, copy, fb>>

ShiftZones == {"UTC", "DST"}

ShiftInstants ==
  {KDateTime(1, SecsPerHour \div 2, "UTC"),
   KDateTime(1, SecsPerHour + SecsPerHour \div 2, "UTC"),
   KDateTime(2, SecsPerHour \div 2, "UTC")}

ShiftDays == {1, 2}

\* the lists of at most MaxLen elements of S, in any order, with repetitions
listsOf(S) == UNION {[1..n -> S] : n \in 0..MaxLen}

NextShift ==
  \/ \E rdate \in ShiftInstants : AddRDateTime(rdate)
  \/ \E rdate \in ShiftDays : AddRDate(rdate)
  \/ \E exdate \in ShiftInstants : AddExDateTime(exdate)
  \/ \E exdate \in ShiftDays : AddExDate(exdate)
  \/ \E rdates \in listsOf(ShiftInstants) : SetRDateTimes(rdates)
  \/ \E rdates \in listsOf(ShiftDays) : SetRDates(rdates)
  \/ \E exdates \in listsOf(ShiftInstants) : SetExDateTimes(exdates)
  \/ \E exdates \in listsOf(ShiftDays) : SetExDates(exdates)
  \/ \E oldSpec \in ShiftZones, newSpec \in ShiftZones : ShiftTimes(oldSpec, newSpec)
  \/ Clear

SpecShift == Init /\ [][NextShift]_vars

\* C7: rDates, rDateTimes, exDates and exDateTimes are each sorted strictly
\* ascending in every state the list operations, shiftTimes and clear reach.
C7_ListsSortedUnique ==
  /\ isSortedUnique(dtKey(d.mRDateTimes))
  /\ isSortedUnique(dtKey(d.mExDateTimes))
  /\ isSortedUnique(d.mRDates)
  /\ isSortedUnique(d.mExDates)

(***************************************************************************)
(* Specification SpecM: the mutators of the rules and of the recurrence as *)
(* a whole, on a recurrence that setRecurReadOnly makes read-only and      *)
(* writable again.                                                         *)
(***************************************************************************)
SetRecurReadOnly(readOnly) ==
  /\ search.pc = "idle"
  /\ d' = setRecurReadOnly(called, readOnly)
  /\ UNCHANGED <<search, shifts, notify, copy, fb>>

RemoveRRule(i) ==
  /\ search.pc = "idle"
  /\ d' = removeRRule(called, i)
  /\ UNCHANGED <<search, shifts, notify, copy, fb>>

RemoveExRule(i) ==
  /\ search.pc = "idle"
  /\ d' = removeExRule(called, i)
  /\ UNCHANGED <<search, shifts, notify, copy, fb>>

SetDuration(duration) ==
  /\ search.pc = "idle"
  /\ d' = setDuration(called, duration)
  /\ UNCHANGED <<search, shifts, notify, copy, fb>>

SetEndDateTime(dateTime) ==
  /\ search.pc = "idle"
  /\ d' = setEndDateTime(called, dateTime)
  /\ UNCHANGED <<search, shifts, notify, copy, fb>>

SetFrequency(freq) ==
  /\ search.pc = "idle"
  /\ d' = setFrequency(called, freq)
  /\ UNCHANGED <<search, shifts, notify, copy, fb>>

SetPeriod(type, freq) ==
  /\ search.pc = "idle"
  /\ d' = setPeriod(called, type, freq)
  /\ UNCHANGED <<search, shifts, notify, copy, fb>>

SetWeekly(freq, weekStart) ==
  /\ search.pc = "idle"
  /\ d' = setWeekly(called, freq, weekStart)
  /\ UNCHANGED <<search, shifts, notify, copy, fb>>

SetWeeklyDays(freq, days, weekStart) ==
  /\ search.pc = "idle"
  /\ d' = setWeeklyDays(called, freq, days, weekStart)
  /\ UNCHANGED <<search, shifts, notify, copy, fb>>

AddMonthlyPosDays(pos, days) ==
  /\ search.pc = "idle"
  /\ d' = addMonthlyPosDays(called, pos, days)
  /\ UNCHANGED <<search, shifts, notify, copy, fb>>

AddMonthlyPos(pos, day) ==
  /\ search.pc = "idle"
  /\ d' = addMonthlyPos(called, pos, day)
  /\ UNCHANGED <<search, shifts, notify, copy, fb>>

AddMonthlyDate(day) ==
  /\ search.pc = "idle"
  /\ d' = addMonthlyDate(called, day)
  /\ UNCHANGED <<search, shifts, notify, copy, fb>>

AddYearlyDay(day) ==
  /\ search.pc = "idle"
  /\ d' = addYearlyDay(called, day)
  /\ UNCHANGED <<search, shifts, notify, copy, fb>>

AddYearlyMonth(month) ==
  /\ search.pc = "idle"
  /\ d' = addYearlyMonth(called, month)
  /\ UNCHANGED <<search, shifts, notify, copy, fb>>

UnsetRecurs ==
  /\ search.pc = "idle"
  /\ d' = unsetRecurs(called)
  /\ UNCHANGED <<search, shifts, notify, copy, fb>>

MStarts == {KDateTime(1, Hours(10), "UTC"), KDate(1, "UTC")}

MRules == {RecurrenceRule("rDaily", 1, NoTime, 3, NoTime)}

NextM ==
  \/ \E readOnly \in BOOLEAN : SetRecurReadOnly(readOnly)
  \/ \E floats \in BOOLEAN : SetFloats(floats)
  \/ \E start \in MStarts : SetStartDateTime(start)
  \/ \E rrule \in MRules : AddRRule(rrule)
  \/ \E i \in 0..Len(d.mRRules) : RemoveRRule(i)
  \/ \E exrule \in MRules : AddExRule(exrule)
  \/ \E i \in 0..Len(d.mExRules) : RemoveExRule(i)
  \/ \E duration \in {2} : SetDuration(duration)
  \/ \E dateTime \in {KDateTime(3, Hours(10), "UTC")} : SetEndDateTime(dateTime)
  \/ \E freq \in {0, 2} : SetFrequency(freq)
  \/ \E freq \in {0, 1} : SetPeriod("rDaily", freq)
  \/ \E freq \in {1} : SetWeekly(freq, 1)
  \/ \E freq \in {0, 1} : SetWeeklyDays(freq, {0}, 1)
  \/ \E pos \in {1} : AddMonthlyPosDays(pos, {0})
  \/ \E pos \in {1} : AddMonthlyPos(pos, 1)
  \/ \E day \in {1} : AddMonthlyDate(day)
  \/ \E day \in {1} : AddYearlyDay(day)
  \/ \E month \in {1, 13} : AddYearlyMonth(month)
  \/ UnsetRecurs
  \/ Clear

SpecM == Init /\ [][NextM]_vars

\* what readOnly protects: the anchor, allDay, both rule lists with every
\* field of every rule, and the four date lists
protected(s) ==
  <<s.mStartDateTime, s.mFloating, s.mRRules, s.mExRules,
    s.mRDateTimes, s.mRDates, s.mExDateTimes, s.mExDates>>

\* C6: a mutator called while readOnly is true leaves the anchor, allDay, the
\* rules and the date lists unchanged and notifies no listener.
C6_ReadOnlyNoOp ==
  [][d.mRecurReadOnly => protected(d') = protected(d) /\ d'.updates = 0]_vars

\* C11: endDateTime() and endDate() are invalid when the recurrence has no
\* inclusion rule and no rdates, and when an inclusion rule never ends.
C11_EndInvalidWithoutRules ==
  anchored =>
    ((\/ d.mRRules = <<>> /\ d.mRDates = <<>> /\ d.mRDateTimes = <<>>
      \/ \E i \in DOMAIN d.mRRules : neverEnds(d.mRRules[i]))
       => ~isValid(endDateTime(d)) /\ endDate(d) = NoDate)

\* C12: after setStartDateTime(t) on a recurrence that is not read-only, the
\* start is t, allDay is whether t is date-only, and every rrule and exrule
\* starts at t.
C12_StartCascades ==
  [][\A start \in MStarts :
       (~d.mRecurReadOnly /\ SetStartDateTime(start)) =>
         /\ d'.mStartDateTime = start
         /\ d'.mFloating = start.dateOnly
         /\ \A i \in DOMAIN d'.mRRules : d'.mRRules[i].start = start
         /\ \A i \in DOMAIN d'.mExRules : d'.mExRules[i].start = start]_vars

\* C13: every rule in rRules and exRules has its allDay flag equal to the
\* allDay flag of the recurrence.
C13_RulesFollowFloats ==
  /\ \A i \in DOMAIN d.mRRules : d.mRRules[i].floats = d.mFloating
  /\ \A i \in DOMAIN d.mExRules : d.mExRules[i].floats = d.mFloating

\* C13 witness: an all-day recurrence holding an rrule and an exrule
C13_Witness ==
  /\ d.mFloating
  /\ d.mRRules # <<>> /\ d.mExRules # <<>>
  /\ d.mRRules[1].floats /\ d.mExRules[1].floats

\* C14: a call of a mutator that changes the state of a recurrence that is not
\* read-only notifies each registered observer exactly once.
C14_OneNotification ==
  [][(~d.mRecurReadOnly /\ protected(d') # protected(d)) => d'.updates = 1]_vars

(***************************************************************************)
(* Specification SpecType: recurrenceType() asked between the mutators     *)
(* that change the first rrule, and between changes a client makes to that *)
(* rule itself, which call back recurrenceChanged.                         *)
(***************************************************************************)
RecurrenceType ==
  /\ search.pc = "idle"
  /\ d' = recurrenceType(called)
  /\ UNCHANGED <<search, shifts, notify, copy, fb>>

\* rRules()[0]->setRecurrenceType( type ), called by a client
RuleSetRecurrenceType(type) ==
  /\ search.pc = "idle"
  /\ d.mRRules # <<>>
  /\ d' = setDefaultRule(called, [d.mRRules[1] EXCEPT !.period = type])
  /\ UNCHANGED <<search, shifts, notify, copy, fb>>

TypePeriods == {"rDaily", "rMonthly", "rYearly"}

NextType ==
  \/ RecurrenceType
  \/ \E type \in TypePeriods : RuleSetRecurrenceType(type)
  \/ \E readOnly \in BOOLEAN : SetRecurReadOnly(readOnly)
  \/ \E rrule \in MRules : AddRRule(rrule)
  \/ \E i \in 0..Len(d.mRRules) : RemoveRRule(i)
  \/ \E type \in TypePeriods : SetPeriod(type, 1)
  \/ \E freq \in {1} : SetWeekly(freq, 1)
  \/ \E pos \in {1} : AddMonthlyPos(pos, 1)
  \/ \E day \in {1} : AddMonthlyDate(day)
  \/ \E day \in {1} : AddYearlyDay(day)
  \/ \E month \in {1} : AddYearlyMonth(month)
  \/ UnsetRecurs
  \/ Clear

SpecType == Init /\ [][NextType]_vars

\* C15: recurrenceType() returns the classification of the current first
\* rrule, rNone when there is none: a cached value is never stale.
C15_CacheCoherent ==
  recurrenceType(d).mCachedType = recurrenceTypeOf(d.mRRules)

\* C15 witness: a cached classification of a rule with BY-filters, and one
\* filled in again after a change
C15_Witness ==
  /\ d.mCachedType \in {"rMonthlyPos", "rYearlyDay", "rYearlyPos", "rOther"}
  /\ d.mRRules # <<>>
  /\ d.mRRules[1].byDays # <<>> \/ d.mRRules[1].byYearDays # <<>>

(***************************************************************************)
(* Specification SpecObs: observers are added and removed, and updated()   *)
(* runs over them one observer at a time; an observer that is called       *)
(* either stays registered or removes itself from within the call.         *)
(***************************************************************************)
\* Recurrence::addObserver
addObserver(s, observer) ==
  IF observer \notin seqRange(s.mObservers)
  THEN [s EXCEPT !.mObservers = Append(@, observer)]
  ELSE s

\* QList::removeAll
removeAll(seq, x) ==
  LET F[i \in 0..Len(seq)] ==
        IF i = 0 THEN <<>>
        ELSE IF seq[i] = x THEN F[i - 1] ELSE Append(F[i - 1], seq[i])
  IN  F[Len(seq)]

\* Recurrence::removeObserver
removeObserver(s, observer) ==
  IF observer \in seqRange(s.mObservers)
  THEN [s EXCEPT !.mObservers = removeAll(@, observer)]
  ELSE s

AddObserver(observer) ==
  /\ notify.pc = "idle"
  /\ d' = addObserver(d, observer)
  /\ UNCHANGED <<search, shifts, notify, copy, fb>>

RemoveObserver(observer) ==
  /\ notify.pc = "idle"
  /\ d' = removeObserver(d, observer)
  /\ UNCHANGED <<search, shifts, notify, copy, fb>>

\* updated() is entered: i = 0, end = d->mObservers.count()
UpdatedStart ==
  /\ notify.pc = "idle"
  /\ notify' = [pc |-> "loop", i |-> 0, end |-> Len(d.mObservers),
                registered |-> d.mObservers, got |-> <<>>, outOfRange |-> FALSE]
  /\ d' = [d EXCEPT !.mCachedType = "rMax"]
  /\ UNCHANGED <<search, shifts, copy, fb>>

\* one round of the loop of updated(): the observer at index i is called if
\* it is not null, and removes itself within the call if leaves holds.  An
\* index at or beyond the length of the list is outside the list: the read
\* either stops the program (a checked operator[]) or yields what the slot
\* behind the list holds, stale: null or an observer that was in the list
\* when the loop began, which is then called like any other.
UpdatedStep(leaves, stops, stale) ==
  /\ notify.pc = "loop"
  /\ notify.i < notify.end
  /\ IF notify.i >= Len(d.mObservers)
     THEN IF stops
          THEN /\ notify' = [notify EXCEPT !.outOfRange = TRUE, !.pc = "done", !.i = @ + 1]
               /\ UNCHANGED d
          ELSE IF stale = "null"
          THEN /\ notify' = [notify EXCEPT !.outOfRange = TRUE, !.i = @ + 1]
               /\ UNCHANGED d
          ELSE /\ notify' = [notify EXCEPT !.outOfRange = TRUE, !.i = @ + 1,
                                           !.got = Append(@, stale)]
               /\ d' = IF leaves THEN removeObserver(d, stale) ELSE d
     ELSE LET observer == d.mObservers[notify.i + 1]
          IN  IF observer = "null"
              THEN /\ notify' = [notify EXCEPT !.i = @ + 1]
                   /\ UNCHANGED d
              ELSE /\ notify' = [notify EXCEPT !.i = @ + 1, !.got = Append(@, observer)]
                   /\ d' = IF leaves THEN removeObserver(d, observer) ELSE d
  /\ UNCHANGED <<search, shifts, copy, fb>>

\* the loop of updated() ends: i = end
UpdatedEnd ==
  /\ notify.pc = "loop"
  /\ notify.i >= notify.end
  /\ notify' = [notify EXCEPT !.pc = "done"]
  /\ UNCHANGED <<d, search, shifts, copy, fb>>

UpdatedReturn ==
  /\ notify.pc = "done"
  /\ notify' = quiet
  /\ UNCHANGED <<d, search, shifts, copy, fb>>

Observers == {"a", "b", "c", "null"}

\* what the slot behind the list may hold during a run of updated()
StaleSlots == {"null"} \cup seqRange(notify.registered)

NextObs ==
  \/ \E observer \in Observers : AddObserver(observer)
  \/ \E observer \in Observers : RemoveObserver(observer)
  \/ UpdatedStart
  \/ \E leaves \in BOOLEAN, stops \in BOOLEAN, stale \in StaleSlots : UpdatedStep(leaves, stops, stale)
  \/ UpdatedEnd
  \/ UpdatedReturn

SpecObs == Init /\ [][NextObs]_vars

\* number of times x is in the sequence
timesIn(seq, x) == Cardinality({i \in DOMAIN seq : seq[i] = x})

\* C16: while observers remove themselves from within recurrenceUpdated,
\* updated() never indexes mObservers at or beyond its length, and when it
\* has run every observer registered at its start has been called exactly
\* once.
C16_SelfRemovalSafe ==
  /\ ~notify.outOfRange
  /\ notify.pc = "done" =>
       \A observer \in seqRange(notify.registered) \ {"null"} :
         timesIn(notify.got, observer) = 1

(***************************************************************************)
(* Specification SpecZone: a recurrence whose start, rDateTimes and        *)
(* exDateTimes are expressed in zone "UTC" or in zone "P1", under          *)
(* shiftTimes between "UTC", "P1" and the invalid zone.                    *)
(***************************************************************************)
ZoneSpecs == {"UTC", "P1", "none"}

ZoneInstants == {KDateTime(1, Hours(10), "UTC"), KDateTime(1, Hours(10), "P1")}

NextZone ==
  \/ \E start \in ZoneInstants \ {d.mStartDateTime} : SetStartDateTime(start)
  \/ \E rrule \in MRules : AddRRule(rrule)
  \/ \E rdate \in ZoneInstants : AddRDateTime(rdate)
  \/ \E exdate \in ZoneInstants : AddExDateTime(exdate)
  \/ \E oldSpec \in ZoneSpecs, newSpec \in ZoneSpecs : ShiftTimes(oldSpec, newSpec)
  \/ \E readOnly \in BOOLEAN : SetRecurReadOnly(readOnly)
  \/ Clear

SpecZone == Init /\ [][NextZone]_vars

\* the instants a recurrence stores: the start, the rDateTimes, the exDateTimes
stored(s) == <<s.mStartDateTime>> \o s.mRDateTimes \o s.mExDateTimes

\* C17 as stated: shiftTimes between two valid zones leaves the wall-clock
\* reading of every valid stored instant as it was, whatever zone the instant
\* was stored in, and gives it the new zone.
C17_WallClockKept ==
  [][\A oldSpec \in ZoneSpecs \ {"none"}, newSpec \in ZoneSpecs \ {"none"} :
       (~d.mRecurReadOnly /\ ShiftTimes(oldSpec, newSpec)) =>
         \A i \in DOMAIN stored(d) :
           isValid(stored(d)[i]) =>
             /\ Wall(stored(d')[i]) = Wall(stored(d)[i])
             /\ stored(d')[i].z = newSpec]_vars

\* C17 amended: shiftTimes between two valid zones gives every valid stored
\* instant the new zone and, as its wall-clock reading, the reading the
\* instant had when viewed in the old zone; an instant stored in the old
\* zone keeps its own reading.
C17_ViewedWallClockKept ==
  [][\A oldSpec \in ZoneSpecs \ {"none"}, newSpec \in ZoneSpecs \ {"none"} :
       (~d.mRecurReadOnly /\ ShiftTimes(oldSpec, newSpec)) =>
         \A i \in DOMAIN stored(d) :
           isValid(stored(d)[i]) =>
             /\ Wall(stored(d')[i]) = Wall(toTimeSpec(stored(d)[i], oldSpec))
             /\ stored(d')[i].z = newSpec
             /\ stored(d)[i].z = oldSpec => Wall(stored(d')[i]) = Wall(stored(d)[i])]_vars

\* one shiftTimes("UTC", "P1") has acted on a start and an rDateTime stored
\* as 10:00 in "P1", which read 09:00 in "UTC"
C17_Witness ==
  /\ shifts = 1
  /\ d.mStartDateTime = KDateTime(1, Hours(9), "P1")
  /\ d.mRDateTimes = <<KDateTime(1, Hours(9), "P1")>>

\* C18: shiftTimes with equal zones or with an invalid zone leaves the
\* start, the date lists and every rule as they were, in whatever zone the
\* stored instants are expressed.
C18_ShiftNoOp ==
  [][\A oldSpec \in ZoneSpecs, newSpec \in ZoneSpecs :
       ((oldSpec = newSpec \/ oldSpec = "none" \/ newSpec = "none")
          /\ ShiftTimes(oldSpec, newSpec)) => protected(d') = protected(d)]_vars

\* C19: for every date earlier than the date of the start and every
\* date/time earlier than the start, recursOn and recursAt are false and
\* recurTimesOn is empty, rDates and rDateTimes earlier than the start
\* included.
C19_BelowAnchorNegative ==
  anchored =>
    /\ \A qd \in ProbeDays, timeSpec \in ProbeZones :
         qd < startDate(d) =>
           /\ ~recursOn(d, qd, timeSpec)
           /\ recurTimesOn(d, qd, timeSpec) = <<>>
    /\ \A dt \in ProbeTimes :
         dtLess(dt, d.mStartDateTime) => ~recursAt(d, dt)

(***************************************************************************)
(* Specification SpecBy: the helpers that add BY-filter values to the      *)
(* default rule, called with values at, inside and outside the ends of     *)
(* their domains.  addYearlyDate is addMonthlyDate, addYearlyPos and       *)
(* addWeeklyDays are addMonthlyPos with a bit array.                       *)
(***************************************************************************)
ByPositions == {-54, 53}
ByWeekdays == {0, 7}
ByArrayPositions == {0, 54}
ByArrays == {{0, 6}}
ByMonthDays == {-32, 0, 31}
ByYearDays == {366, 367}
ByMonths == {0, 12, 13}

NextBy ==
  \/ \E rrule \in MRules : AddRRule(rrule)
  \/ \E pos \in ByPositions, day \in ByWeekdays : AddMonthlyPos(pos, day)
  \/ \E pos \in ByArrayPositions, days \in ByArrays : AddMonthlyPosDays(pos, days)
  \/ \E day \in ByMonthDays : AddMonthlyDate(day)
  \/ \E day \in ByYearDays : AddYearlyDay(day)
  \/ \E month \in ByMonths : AddYearlyMonth(month)
  \/ \E readOnly \in BOOLEAN : SetRecurReadOnly(readOnly)
  \/ UnsetRecurs

SpecBy == Init /\ [][NextBy]_vars

\* C20: whatever arguments the add helpers were called with, the default
\* rule's byMonthDays lie in -31..-1 or 1..31, its byYearDays in -366..-1 or
\* 1..366, its byMonths in 1..12, and each of its byDays has an offset in
\* -53..53 and a weekday in 1..7.
C20_ByValuesInDomain ==
  d.mRRules # <<>> =>
    LET rrule == d.mRRules[1]
    IN  /\ seqRange(rrule.byMonthDays) \subseteq ((-31..31) \ {0})
        /\ seqRange(rrule.byYearDays) \subseteq ((-366..366) \ {0})
        /\ seqRange(rrule.byMonths) \subseteq 1..12
        /\ \A i \in DOMAIN rrule.byDays :
             rrule.byDays[i][1] \in -53..53 /\ rrule.byDays[i][2] \in 1..7

\* C21: setFrequency and the type setters (setMinutely .. setYearly, both
\* forms of setWeekly) called with a frequency of zero or less leave the rule
\* lists, every rule, and the cached type as they were, create no rule and
\* notify no listener.
C21_NonPositiveFrequencyRejected ==
  [][\A freq \in {-1, 0} :
       (\/ SetFrequency(freq)
        \/ \E type \in {"rMinutely", "rHourly", "rDaily", "rMonthly", "rYearly"} :
             SetPeriod(type, freq)
        \/ SetWeekly(freq, 1)
        \/ SetWeeklyDays(freq, {0}, 1)) => d' = called]_vars

(***************************************************************************)
(* Specification SpecClass: one rule whose period and BY lists its own     *)
(* setters change, each list between empty and one value, with             *)
(* recurrenceType() queried in between.                                    *)
(***************************************************************************)
\* a setter of a BY list of the first rule, which calls back recurrenceChanged
RuleSetBy(field, list) ==
  /\ search.pc = "idle"
  /\ d.mRRules # <<>>
  /\ d' = setDefaultRule(called, [d.mRRules[1] EXCEPT ![field] = list])
  /\ UNCHANGED <<search, shifts, notify, copy, fb>>

ClassPeriods ==
  {"rNone", "rSecondly", "rMinutely", "rHourly", "rDaily", "rWeekly", "rMonthly", "rYearly"}

ByLists ==
  {"bySetPos", "bySeconds", "byWeekNumbers", "byMinutes", "byHours",
   "byMonthDays", "byYearDays", "byMonths"}

NextClass ==
  \/ RecurrenceType
  \/ \E rrule \in MRules : AddRRule(rrule)
  \/ UnsetRecurs
  \/ \E type \in ClassPeriods : RuleSetRecurrenceType(type)
  \/ \E field \in ByLists, list \in {<<>>, <<1>>} : RuleSetBy(field, list)
  \/ \E list \in {<<>>, <<<<0, 1>>>>} : RuleSetBy("byDays", list)

SpecClass == Init /\ [][NextClass]_vars

\* the classification as the claim words it, for the periods it names
legacyType(rrule) ==
  LET set(field) == rrule[field] # <<>>
      type == rrule.period
  IN  IF set("bySetPos") \/ set("byWeekNumbers") \/ set("bySeconds")
         \/ set("byMinutes") \/ set("byHours")
      THEN "rOther"
      ELSE IF (set("byYearDays") \/ set("byMonths")) /\ type # "rYearly" THEN "rOther"
      ELSE IF set("byDays") /\ type \notin {"rWeekly", "rMonthly", "rYearly"} THEN "rOther"
      ELSE IF type \in {"rMinutely", "rHourly", "rDaily", "rWeekly"} THEN type
      ELSE IF type = "rMonthly"
      THEN IF ~set("byDays") THEN "rMonthlyDay"
           ELSE IF ~set("byMonthDays") THEN "rMonthlyPos"
           ELSE "rOther"
      ELSE IF set("byDays") /\ ~set("byMonthDays") /\ ~set("byYearDays") THEN "rYearlyPos"
      ELSE IF set("byYearDays") /\ ~set("byDays") /\ ~set("byMonths") /\ ~set("byMonthDays")
      THEN "rYearlyDay"
      ELSE IF ~set("byDays") /\ ~set("byYearDays") THEN "rYearlyMonth"
      ELSE "rOther"

\* C22: the type of no rule is rNone, and the type of a rule is the one the
\* legacy classification gives for its period and for which of its BY lists
\* are not empty, for every period the classification names and for every
\* rule with a BY list that makes it rOther.
C22_LegacyClassification ==
  IF d.mRRules = <<>> THEN recurrenceTypeOf(d.mRRules) = "rNone"
  ELSE (d.mRRules[1].period \notin {"rNone", "rSecondly"} \/ legacyType(d.mRRules[1]) = "rOther")
         => recurrenceTypeOf(d.mRRules) = legacyType(d.mRRules[1])

\* recurrenceType() has classified a daily rule with byHours set
C22_Witness ==
  /\ d.mRRules # <<>>
  /\ d.mRRules[1].period = "rDaily" /\ d.mRRules[1].byHours # <<>>
  /\ d.mCachedType = "rOther"

(***************************************************************************)
(* Specification SpecCopy: a recurrence r, the recurrence c copy-          *)
(* constructed from it, and mutations of either after the copy.  Rules are *)
(* objects on a heap: a recurrence holds their addresses, and a rule       *)
(* object that changes calls recurrenceChanged of each of its observers.   *)
(***************************************************************************)
\* the recurrence p with the rules its addresses point to
deref(heap, p) ==
  [p EXCEPT !.mRRules = [i \in DOMAIN @ |-> heap[@[i]].rule],
            !.mExRules = [i \in DOMAIN @ |-> heap[@[i]].rule]]

\* the heap after the rule objects of recurrence p have taken the rules of v
store(heap, p, v) ==
  [a \in DOMAIN heap |->
     IF \E i \in DOMAIN p.mRRules : p.mRRules[i] = a
     THEN [heap[a] EXCEPT !.rule = v.mRRules[CHOOSE i \in DOMAIN p.mRRules : p.mRRules[i] = a]]
     ELSE IF \E i \in DOMAIN p.mExRules : p.mExRules[i] = a
     THEN [heap[a] EXCEPT !.rule = v.mExRules[CHOOSE i \in DOMAIN p.mExRules : p.mExRules[i] = a]]
     ELSE heap[a]]

\* the fields of v with the rule addresses of p
withRules(v, p) == [v EXCEPT !.mRRules = p.mRRules, !.mExRules = p.mExRules]

other(w) == IF w = "r" THEN "c" ELSE "r"

\* the recurrence w before a call on it
calledOf(cp, w) == [deref(cp.heap, cp[w]) EXCEPT !.updates = 0]

\* the state after a call has made recurrence w into v: its rule objects take
\* the rules of v, and the other recurrence has recurrenceChanged called once
\* for each changed rule object it observes
mutated(cp, w, v) ==
  LET heap1 == store(cp.heap, cp[w], v)
      hits == Cardinality({a \in DOMAIN heap1 :
                             /\ heap1[a].rule # cp.heap[a].rule
                             /\ other(w) \in cp.heap[a].observers})
  IN  [cp EXCEPT !.heap = heap1,
                 ![w] = withRules(v, cp[w]),
                 ![other(w)] = recurrenceChanged([@ EXCEPT !.updates = 0], hits)]

Recurrence_rulesShared(cp) ==
  [cp EXCEPT !.made = TRUE,
             !.rules = Len(cp.r.mRRules) + Len(cp.r.mExRules),
             !.c = [cp.r EXCEPT !.mObservers = <<>>, !.updates = 0]]

\* Recurrence( const Recurrence &r ): Private( *r.d ) copies the date lists,
\* the start, the cached type and the flags, and not mObservers; each rule is
\* copied into a new object, which the copy observes
Recurrence(cp) ==
  LET n == Len(cp.heap)
      nr == Len(cp.r.mRRules)
      ne == Len(cp.r.mExRules)
      object(a) == [rule |-> cp.heap[a].rule, observers |-> {"c"}]
  IN  [cp EXCEPT !.made = TRUE,
                 !.rules = nr + ne,
                 !.heap = @ \o [i \in 1..nr |-> object(cp.r.mRRules[i])]
                            \o [i \in 1..ne |-> object(cp.r.mExRules[i])],
                 !.c = [cp.r EXCEPT !.mObservers = <<>>, !.updates = 0,
                                    !.mRRules = [i \in 1..nr |-> n + i],
                                    !.mExRules = [i \in 1..ne |-> n + nr + i]]]

\* QList<KDateTime>::operator==: the same length and element by element the
\* same moment
dtListEqual(x, y) ==
  Len(x) = Len(y) /\ \A i \in DOMAIN x : dtEqual(x[i], y[i])

\* Recurrence::Private::operator==; the start and the date/time lists are
\* compared with KDateTime::operator==, by moment and not by zone, and the
\* rules with RecurrenceRule::operator==, which compares the start and the
\* end of a rule in the same way and the other fields by value
equalTo(a, b) ==
  LET ruleEqual(r1, r2) ==
        /\ dtEqual(r1.start, r2.start)
        /\ dtEqual(r1.endDt, r2.endDt)
        /\ [r1 EXCEPT !.start = NoTime, !.endDt = NoTime]
             = [r2 EXCEPT !.start = NoTime, !.endDt = NoTime]
  IN
  /\ dtEqual(a.mStartDateTime, b.mStartDateTime)
  /\ a.mFloating = b.mFloating
  /\ a.mRecurReadOnly = b.mRecurReadOnly
  /\ a.mExDates = b.mExDates
  /\ dtListEqual(a.mExDateTimes, b.mExDateTimes)
  /\ a.mRDates = b.mRDates
  /\ dtListEqual(a.mRDateTimes, b.mRDateTimes)
  /\ Len(a.mRRules) = Len(b.mRRules)
  /\ \A i \in DOMAIN a.mRRules : ruleEqual(a.mRRules[i], b.mRRules[i])
  /\ Len(a.mExRules) = Len(b.mExRules)
  /\ \A i \in DOMAIN a.mExRules : ruleEqual(a.mExRules[i], b.mExRules[i])

CopyConstruct ==
  /\ ~copy.made
  /\ copy' = Recurrence(copy)
  /\ UNCHANGED <<d, search, shifts, notify, fb>>

SetStartDateTimeOf(w, start) ==
  /\ w = "c" => copy.made
  /\ copy' = mutated(copy, w, setStartDateTime(calledOf(copy, w), start))
  /\ UNCHANGED <<d, search, shifts, notify, fb>>

AddRDateTimeOf(w, rdate) ==
  /\ w = "c" => copy.made
  /\ Len(copy[w].mRDateTimes) < MaxLen
  /\ copy' = mutated(copy, w, addRDateTime(calledOf(copy, w), rdate))
  /\ UNCHANGED <<d, search, shifts, notify, fb>>

\* a rule of the recurrence changes its period and calls back
RuleSetRecurrenceTypeOf(w, type) ==
  /\ w = "c" => copy.made
  /\ copy[w].mRRules # <<>>
  /\ LET s == calledOf(copy, w)
     IN  copy' = mutated(copy, w, setDefaultRule(s, [s.mRRules[1] EXCEPT !.period = type]))
  /\ UNCHANGED <<d, search, shifts, notify, fb>>

\* addRRule of a new rule object, which the recurrence observes
AddRRuleOf(w, rrule) ==
  /\ w = "c" => copy.made
  /\ Len(copy[w].mRRules) < MaxRules
  /\ LET s == calledOf(copy, w)
         v == addRRule(s, [rrule EXCEPT !.start = s.mStartDateTime])
     IN  copy' = [copy EXCEPT
                    !.heap = Append(@, [rule |-> v.mRRules[Len(v.mRRules)], observers |-> {w}]),
                    ![w] = [withRules(v, copy[w]) EXCEPT !.mRRules = Append(@, Len(copy.heap) + 1)],
                    ![other(w)] = [@ EXCEPT !.updates = 0]]
  /\ UNCHANGED <<d, search, shifts, notify, fb>>

AddExRuleOf(w, exrule) ==
  /\ w = "c" => copy.made
  /\ Len(copy[w].mExRules) < MaxRules
  /\ LET s == calledOf(copy, w)
         v == addExRule(s, [exrule EXCEPT !.start = s.mStartDateTime])
     IN  copy' = [copy EXCEPT
                    !.heap = Append(@, [rule |-> v.mExRules[Len(v.mExRules)], observers |-> {w}]),
                    ![w] = [withRules(v, copy[w]) EXCEPT !.mExRules = Append(@, Len(copy.heap) + 1)],
                    ![other(w)] = [@ EXCEPT !.updates = 0]]
  /\ UNCHANGED <<d, search, shifts, notify, fb>>

NextCopy ==
  \/ CopyConstruct
  \/ \E w \in {"r", "c"}, start \in Starts : SetStartDateTimeOf(w, start)
  \/ \E rdate \in Starts : AddRDateTimeOf("r", rdate)
  \/ \E w \in {"r", "c"}, type \in {"rWeekly"} : RuleSetRecurrenceTypeOf(w, type)
  \/ \E w \in {"r", "c"}, rrule \in MRules : AddRRuleOf(w, rrule)
  \/ \E exrule \in MRules : AddExRuleOf("r", exrule)

SpecCopy == Init /\ [][NextCopy]_vars

\* the addresses of the rule objects of a recurrence
rulesOf(p) == seqRange(p.mRRules) \cup seqRange(p.mExRules)

\* C23: the copy equals its source when it is made, the two recurrences
\* never point to the same rule object, the copy observes each of its rule
\* objects, and a call on one of the two after the copy leaves the other as
\* it was and notifies none of the other's listeners.
C23_CopyIndependent ==
  [][copy'.made =>
       /\ rulesOf(copy'.r) \cap rulesOf(copy'.c) = {}
       /\ \A a \in rulesOf(copy'.c) : "c" \in copy'.heap[a].observers
       /\ ~copy.made => equalTo(deref(copy'.heap, copy'.c), deref(copy'.heap, copy'.r))
       /\ copy.made =>
            \E w \in {"r", "c"} :
              deref(copy'.heap, copy'[w]) = calledOf(copy, w)]_vars

\* the constructor has copied a rule, and since then the rule of the source
\* or the rule of the copy has been given another start or period
C23_Witness ==
  /\ copy.made /\ copy.rules > 0
  /\ copy.r.mRRules # <<>> /\ copy.c.mRRules # <<>>
  /\ copy.heap[copy.r.mRRules[1]].rule # copy.heap[copy.c.mRRules[1]].rule

(***************************************************************************)
(* Specification SpecS6: the recurrence of scenario S6 is built and        *)
(* getNextDateTime is run from midnight of each day of June 2020.  Day n   *)
(* is the n-th of June 2020; day 1 is a Monday and day 93 is 2020-09-01.   *)
(***************************************************************************)
S6Anchor == KDateTime(1, Hours(10), "UTC")

S6RRule == RecurrenceRule("rWeekly", 1, NoTime, 20, NoTime)

\* every second week on Monday, the weekday of the anchor, until 2020-09-01
S6ExRule ==
  [RecurrenceRule("rWeekly", 2, NoTime, 0, KDateTime(93, 0, "UTC")) EXCEPT
     !.byDays = <<<<0, 1>>>>]

S6From == {KDateTime(qd, 0, "UTC") : qd \in 0..30}

NextS6 ==
  \/ SetStartDateTime(S6Anchor)
  \/ AddRRule(S6RRule)
  \/ AddExRule(S6ExRule)
  \/ \E preDateTime \in S6From : StartNext(preDateTime)
  \/ SearchStep
  \/ SearchReturn

SpecS6 == Init /\ [][NextS6]_vars

\* the recurrence is the one of scenario S6
inS6 ==
  /\ d.mStartDateTime = S6Anchor
  /\ d.mRRules = <<[S6RRule EXCEPT !.start = S6Anchor]>>
  /\ d.mExRules = <<[S6ExRule EXCEPT !.start = S6Anchor]>>
  /\ d.mRDateTimes = <<>> /\ d.mRDates = <<>>
  /\ d.mExDateTimes = <<>> /\ d.mExDates = <<>>

\* C24 as stated: in scenario S6 getNextDateTime(2020-06-07 00:00) is
\* 2020-06-15 10:00.
C24_S6NextIsJune15 ==
  inS6 => getNextDateTime(d, KDateTime(7, 0, "UTC")) = KDateTime(15, Hours(10), "UTC")

\* C24 amended: in scenario S6 getNextDateTime(2020-06-07 00:00) is
\* 2020-06-08 10:00; the occurrences the exRule excludes are those of
\* 2020-06-01, 2020-06-15 and every second week after, so that
\* getNextDateTime(2020-06-14 00:00) is 2020-06-22 10:00.
C24_S6NextIsJune8 ==
  inS6 =>
    /\ getNextDateTime(d, KDateTime(7, 0, "UTC")) = KDateTime(8, Hours(10), "UTC")
    /\ getNextDateTime(d, KDateTime(14, 0, "UTC")) = KDateTime(22, Hours(10), "UTC")
    /\ ~recursAt(d, KDateTime(15, Hours(10), "UTC"))

\* a run of getNextDateTime in scenario S6 has skipped the excluded
\* 2020-06-15 and returned 2020-06-22
C24_Witness ==
  /\ inS6
  /\ search.pc = "done" /\ search.fn = "next" /\ search.loop = 2
  /\ search.result = KDateTime(22, Hours(10), "UTC")

\* C25: every valid date/time that getNextDateTime or getPreviousDateTime
\* returns is one at which recursAt is true.
C25_SearchResultRecurs ==
  anchored =>
    \A t \in ProbeTimes :
      /\ isValid(getNextDateTime(d, t)) => recursAt(d, getNextDateTime(d, t))
      /\ isValid(getPreviousDateTime(d, t)) => recursAt(d, getPreviousDateTime(d, t))

\* C26: when endDateTime() is valid, no date/time that timesInInterval
\* returns is later than it, and getNextDateTime(endDateTime()) is invalid.
C26_EndBoundsOccurrences ==
  (anchored /\ isValid(endDateTime(d))) =>
    /\ \A a \in ProbeTimes, b \in ProbeTimes :
         \A i \in DOMAIN timesInInterval(d, a, b) :
           ~dtLess(endDateTime(d), timesInInterval(d, a, b)[i])
    /\ ~isValid(getNextDateTime(d, endDateTime(d)))

(***************************************************************************)
(* FreeBusy.  A date/time is an instant of the time model; the local zone, *)
(* in which a default-constructed date/time stands, is "UTC".  An event is *)
(* a record of its start, its end, whether it is transparent, whether it   *)
(* is an all-day event, and its recurrence.                                *)
(***************************************************************************)
\* Recurrence::recurs
recurs(s) == s.mRRules # <<>> \/ s.mRDates # <<>> \/ s.mRDateTimes # <<>>

\* a QDateTime is an instant that may carry milliseconds beyond its whole
\* second, in a field msec; an instant without the field has none
msecOf(t) == IF "msec" \in DOMAIN t THEN t.msec ELSE 0

withMsec(t, msec) ==
  IF msec = 0 THEN [utc |-> t.utc, z |-> t.z, dateOnly |-> t.dateOnly]
  ELSE [utc |-> t.utc, z |-> t.z, dateOnly |-> t.dateOnly, msec |-> msec]

\* QDateTime::setTime( QTime ): tm the seconds of the time of day, msec its
\* milliseconds
setTime(t, tm, msec) == withMsec(FromWall(date(t) * SecsPerDay + tm, t.z), msec)

\* QDateTime::msecsTo, and secsTo, which is msecsTo / 1000 rounded towards
\* zero
msecsTo(a, b) == (b.utc - a.utc) * 1000 + msecOf(b) - msecOf(a)

secsTo(a, b) ==
  IF msecsTo(a, b) >= 0 THEN msecsTo(a, b) \div 1000
  ELSE -((-msecsTo(a, b)) \div 1000)

\* QDateTime::daysTo
daysTo(a, b) == date(b) - date(a)

\* FreeBusy::Private::addLocalPeriod on a FreeBusy from dtStart to mDtEnd: the
\* periods it appends to mBusyPeriods, one or none
addLocalPeriod(dtStart, mDtEnd, eventStart, eventEnd) ==
  IF ~(\/ secsTo(dtStart, eventStart) >= 0 /\ secsTo(eventStart, mDtEnd) >= 0
       \/ secsTo(dtStart, eventEnd) >= 0 /\ secsTo(eventEnd, mDtEnd) >= 0)
  THEN <<>>
  ELSE <<[start |-> IF secsTo(eventStart, dtStart) >= 0 THEN dtStart ELSE eventStart,
          end |-> IF secsTo(eventEnd, mDtEnd) <= 0 THEN mDtEnd ELSE eventEnd]>>

\* the event that FreeBusy::Private::init works on: an all-day event is
\* replaced by a copy from midnight of its first day to 23:59:59.999 of its
\* last day
timedEvent(event) ==
  IF event.allDay
  THEN [event EXCEPT !.allDay = FALSE,
                     !.dtStart = setTime(event.dtStart, 0, 0),
                     !.dtEnd = setTime(event.dtEnd, SecsPerDay - 1, 999)]
  ELSE event

\* Event::isMultiDay
isMultiDay(event) == daysTo(event.dtStart, event.dtEnd) # 0

\* the periods appended in the round of the loop over the days of the
\* request for the day i days after start
initDay(event, dtStart, mDtEnd, start, i) ==
  LET day == date(start) + i
      extraDays == daysTo(event.dtStart, event.dtEnd)
      hits == {x \in 0..extraDays : recursOn(event.recurrence, day - x, start.z)}
      tmpStart == withMsec(KDateTime(day - minOf(hits), time(event.dtStart), "UTC"),
                           msecOf(event.dtStart))
  IN  IF ~recurs(event.recurrence) THEN <<>>
      ELSE IF isMultiDay(event)
      THEN IF hits = {} THEN <<>>
           ELSE addLocalPeriod(dtStart, mDtEnd, tmpStart,
                  [tmpStart EXCEPT !.utc = @ + secsTo(event.dtStart, event.dtEnd)])
      ELSE IF recursOn(event.recurrence, day, start.z)
      THEN addLocalPeriod(dtStart, mDtEnd,
                          withMsec(KDateTime(day, time(event.dtStart), "UTC"), msecOf(event.dtStart)),
                          withMsec(KDateTime(day, time(event.dtEnd), "UTC"), msecOf(event.dtEnd)))
      ELSE <<>>

\* the periods appended by the rounds from i on
RECURSIVE initDays(_, _, _, _, _, _)
initDays(event, dtStart, mDtEnd, start, i, duration) ==
  IF i > duration THEN <<>>
  ELSE initDay(event, dtStart, mDtEnd, start, i)
         \o initDays(event, dtStart, mDtEnd, start, i + 1, duration)

\* FreeBusy::Private::init( events, start, end ) before the final sortList:
\* the periods appended for the events from index k on
RECURSIVE init(_, _, _, _, _, _)
init(eventList, dtStart, mDtEnd, start, end, k) ==
  IF k > Len(eventList) THEN <<>>
  ELSE (IF eventList[k].transparent THEN <<>>
        ELSE initDays(timedEvent(eventList[k]), dtStart, mDtEnd, start, 0, daysTo(start, end))
               \o addLocalPeriod(dtStart, mDtEnd, timedEvent(eventList[k]).dtStart,
                                 timedEvent(eventList[k]).dtEnd))
         \o init(eventList, dtStart, mDtEnd, start, end, k + 1)

\* FreeBusy::sortList: the lists std::sort may leave of the first n periods,
\* ordered by start; the order of periods with the same start is not
\* determined
RECURSIVE sortList(_, _)
sortList(periods, n) ==
  IF n = 0 THEN {<<>>}
  ELSE LET fits(seq, k) ==
             /\ \A i \in 1..k : msecsTo(periods[n].start, seq[i].start) <= 0
             /\ \A i \in (k + 1)..Len(seq) : msecsTo(seq[i].start, periods[n].start) <= 0
       IN  UNION {{SubSeq(seq, 1, k) \o <<periods[n]>> \o SubSeq(seq, k + 1, Len(seq)) :
                     k \in {k \in 0..Len(seq) : fits(seq, k)}} :
                  seq \in sortList(periods, n - 1)}

\* FreeBusy( events, start, end ) before the final sortList
FreeBusyOf(events, start, end) ==
  [dtStart |-> toTimeSpec(start, "UTC"), mDtEnd |-> end,
   mBusyPeriods |-> init(events, toTimeSpec(start, "UTC"), end, start, end, 1)]

\* FreeBusy::shiftTimes: the loop shifts a copy of each busy period and
\* leaves the stored period as it is
fbShiftTimes(f, oldZone, newZone) ==
  IF oldZone # "none" /\ newZone # "none" /\ oldZone # newZone
  THEN [f EXCEPT !.dtStart = withMsec(setTimeSpec(toTimeSpec(@, oldZone), newZone), msecOf(@)),
                 !.mDtEnd = withMsec(setTimeSpec(toTimeSpec(@, oldZone), newZone), msecOf(@))]
  ELSE f

(***************************************************************************)
(* Specification SpecFb: a FreeBusy is constructed from a list of events   *)
(* over a request window, periods are added to it, and its times are       *)
(* shifted.                                                                *)
(***************************************************************************)
\* the constructor runs on a FreeBusy that does not exist yet
FreeBusyFromEvents(events, start, end) ==
  /\ fb = FreeBusy
  /\ \E f \in {FreeBusyOf(events, start, end)} :
       \E sorted \in sortList(f.mBusyPeriods, Len(f.mBusyPeriods)) :
         fb' = [f EXCEPT !.mBusyPeriods = sorted]
  /\ UNCHANGED <<d, search, shifts, notify, copy>>

\* FreeBusy::addPeriod( start, end )
AddPeriod(start, end) ==
  /\ Len(fb.mBusyPeriods) < MaxLen
  /\ \E periods \in {Append(fb.mBusyPeriods, [start |-> start, end |-> end])} :
       \E sorted \in sortList(periods, Len(periods)) :
         fb' = [fb EXCEPT !.mBusyPeriods = sorted]
  /\ UNCHANGED <<d, search, shifts, notify, copy>>

\* FreeBusy( const FreeBusyPeriod::List & ): the list is taken as it is, not
\* sorted
FreeBusyFromPeriods(busyPeriods) ==
  /\ fb = FreeBusy
  /\ busyPeriods # <<>>
  /\ fb' = [FreeBusy EXCEPT !.mBusyPeriods = busyPeriods]
  /\ UNCHANGED <<d, search, shifts, notify, copy>>

\* FreeBusy::assign( f ): start, end and periods of the other FreeBusy
Assign(f) ==
  /\ fb # f
  /\ fb' = f
  /\ UNCHANGED <<d, search, shifts, notify, copy>>

\* FreeBusy::setDtStart
SetDtStart(start) ==
  /\ fb' = [fb EXCEPT !.dtStart = toTimeSpec(start, "UTC")]
  /\ UNCHANGED <<d, search, shifts, notify, copy>>

\* FreeBusy::setDtEnd
SetDtEnd(end) ==
  /\ fb' = [fb EXCEPT !.mDtEnd = end]
  /\ UNCHANGED <<d, search, shifts, notify, copy>>

\* FreeBusy::addPeriods( list ), and FreeBusy( const Period::List & ) on a
\* FreeBusy without periods
AddPeriods(list) ==
  /\ Len(fb.mBusyPeriods) + Len(list) <= MaxLen
  /\ \E periods \in {fb.mBusyPeriods \o list} :
       \E sorted \in sortList(periods, Len(periods)) :
         fb' = [fb EXCEPT !.mBusyPeriods = sorted]
  /\ UNCHANGED <<d, search, shifts, notify, copy>>

\* FreeBusy::merge( freeBusy )
Merge(freeBusy) ==
  /\ Len(fb.mBusyPeriods) + Len(freeBusy.mBusyPeriods) <= MaxLen
  /\ \E periods \in {fb.mBusyPeriods \o freeBusy.mBusyPeriods} :
       \E sorted \in sortList(periods, Len(periods)) :
         fb' = [dtStart |-> IF msecsTo(freeBusy.dtStart, fb.dtStart) > 0
                           THEN toTimeSpec(freeBusy.dtStart, "UTC") ELSE fb.dtStart,
                mDtEnd |-> IF msecsTo(fb.mDtEnd, freeBusy.mDtEnd) > 0
                          THEN freeBusy.mDtEnd ELSE fb.mDtEnd,
                mBusyPeriods |-> sorted]
  /\ UNCHANGED <<d, search, shifts, notify, copy>>

FreeBusyShiftTimes(oldZone, newZone) ==
  /\ shifts < MaxShifts
  /\ fb' = fbShiftTimes(fb, oldZone, newZone)
  /\ shifts' = shifts + 1
  /\ UNCHANGED <<d, search, notify, copy>>

\* an event that does not recur
Event(dtStart, dtEnd, transparent, allDay) ==
  [dtStart |-> dtStart, dtEnd |-> dtEnd, transparent |-> transparent,
   allDay |-> allDay, recurrence |-> setStartDateTime(Private, dtStart)]

\* an event that recurs daily, three times
DailyEvent(dtStart, dtEnd) ==
  [Event(dtStart, dtEnd, FALSE, FALSE) EXCEPT
     !.recurrence = addRRule(@, RecurrenceRule("rDaily", 1, dtStart, 3, NoTime))]

At(qd, h) == KDateTime(qd, Hours(h), "UTC")

FbEvents ==
  {Event(At(2, 10), At(2, 12), FALSE, FALSE),
   Event(At(2, 6), At(2, 10), FALSE, FALSE),
   Event(At(1, 10), At(3, 10), FALSE, FALSE),
   Event(At(2, 10), At(2, 12), TRUE, FALSE),
   Event(At(2, 0), At(2, 0), FALSE, TRUE),
   DailyEvent(At(2, 14), At(2, 15))}

\* the windows of the requests: part of day 2, and days 1 to 3
FbWindows == {<<At(2, 8), At(2, 18)>>, <<At(1, 0), At(4, 0)>>}

FbZones == {"UTC", "P1", "none"}

\* the lists of events of the requests
FbEventLists == UNION {[1..n -> FbEvents] : n \in 0..MaxLen}

NextFb ==
  \/ \E events \in FbEventLists, window \in FbWindows :
       FreeBusyFromEvents(events, window[1], window[2])
  \/ \E start \in {At(2, 10)}, end \in {At(2, 12)} : AddPeriod(start, end)
  \/ \E start \in {At(1, 0)} : SetDtStart(start)
  \/ \E end \in {At(4, 0)} : SetDtEnd(end)
  \/ \E list \in {<<[start |-> At(2, 14), end |-> At(2, 15)],
                     [start |-> At(2, 6), end |-> At(2, 7)]>>} : AddPeriods(list)
  \/ \E freeBusy \in {FreeBusyOf(<<Event(At(2, 4), At(2, 7), FALSE, FALSE)>>,
                                  At(2, 3), At(2, 20))} : Merge(freeBusy)
  \/ \E busyPeriods \in {<<[start |-> At(2, 14), end |-> At(2, 15)],
                            [start |-> At(2, 6), end |-> At(2, 7)]>>} :
       FreeBusyFromPeriods(busyPeriods)
  \/ \E f \in {FreeBusyOf(<<Event(At(2, 4), At(2, 7), FALSE, FALSE)>>,
                           At(2, 3), At(2, 20))} : Assign(f)
  \/ \E oldZone \in FbZones, newZone \in FbZones : FreeBusyShiftTimes(oldZone, newZone)

SpecFb == Init /\ [][NextFb]_vars

\* C27: FreeBusy::shiftTimes between two different valid zones gives dtEnd
\* and the start and end of every stored busy period the reading they had in
\* the old zone and the new zone; with equal zones or an invalid zone it
\* leaves the FreeBusy as it was.
C27_FreeBusyShift ==
  [][\A oldZone \in FbZones, newZone \in FbZones :
       FreeBusyShiftTimes(oldZone, newZone) =>
         IF oldZone # "none" /\ newZone # "none" /\ oldZone # newZone
         THEN /\ isValid(fb.mDtEnd) =>
                   /\ Wall(fb'.mDtEnd) = Wall(toTimeSpec(fb.mDtEnd, oldZone))
                   /\ fb'.mDtEnd.z = newZone
              /\ Len(fb'.mBusyPeriods) = Len(fb.mBusyPeriods)
              /\ \A i \in DOMAIN fb.mBusyPeriods :
                   /\ Wall(fb'.mBusyPeriods[i].start) = Wall(toTimeSpec(fb.mBusyPeriods[i].start, oldZone))
                   /\ Wall(fb'.mBusyPeriods[i].end) = Wall(toTimeSpec(fb.mBusyPeriods[i].end, oldZone))
                   /\ fb'.mBusyPeriods[i].start.z = newZone
                   /\ fb'.mBusyPeriods[i].end.z = newZone
         ELSE fb' = fb]_vars

\* the span of the event and the window have a moment in common
overlaps(event, start, end) ==
  ~dtLess(event.dtEnd, start) /\ ~dtLess(end, event.dtStart)

\* C28: a FreeBusy constructed from events over a window has, for every
\* event that is not transparent, does not recur, has a time of day and
\* overlaps the window, a busy period from the later of the two starts to
\* the earlier of the two ends; and none of its periods reaches outside the
\* window.
C28_BusyIsIntersection ==
  [][\A events \in FbEventLists, window \in FbWindows :
       FreeBusyFromEvents(events, window[1], window[2]) =>
         /\ \A k \in DOMAIN events :
              (/\ ~events[k].transparent /\ ~events[k].allDay
               /\ ~recurs(events[k].recurrence)
               /\ overlaps(events[k], window[1], window[2])) =>
                \E i \in DOMAIN fb'.mBusyPeriods :
                  /\ fb'.mBusyPeriods[i].start.utc = maxOf({events[k].dtStart.utc, window[1].utc})
                  /\ fb'.mBusyPeriods[i].end.utc = minOf({events[k].dtEnd.utc, window[2].utc})
         /\ \A i \in DOMAIN fb'.mBusyPeriods :
              /\ ~dtLess(fb'.mBusyPeriods[i].start, window[1])
              /\ ~dtLess(window[2], fb'.mBusyPeriods[i].end)]_vars

\* C29: a FreeBusy constructed from one event that is not transparent holds
\* no busy period twice, the period of the first occurrence of a recurring
\* event included; constructed from transparent events it holds no period.
C29_OnePeriodPerOccurrence ==
  [][\A events \in FbEventLists, window \in FbWindows :
       FreeBusyFromEvents(events, window[1], window[2]) =>
         /\ Len(events) = 1 =>
              \A i \in DOMAIN fb'.mBusyPeriods, j \in DOMAIN fb'.mBusyPeriods :
                i # j => fb'.mBusyPeriods[i] # fb'.mBusyPeriods[j]
         /\ (\A k \in DOMAIN events : events[k].transparent) => fb'.mBusyPeriods = <<>>]_vars

(***************************************************************************)
(* The type setters replace the inclusion rules by one fresh rule.         *)
(***************************************************************************)
\* the periods and frequencies the type setters are called with
SetterPeriods == {"rMinutely", "rHourly", "rDaily", "rMonthly", "rYearly"}
SetterFreqs == {1, 2}

(***************************************************************************)
(* Specification SpecSet: a recurrence with an anchor, rules and dates has *)
(* its type set by setMinutely .. setYearly and both forms of setWeekly.   *)
(***************************************************************************)
NextSet ==
  \/ \E readOnly \in BOOLEAN : SetRecurReadOnly(readOnly)
  \/ \E floats \in BOOLEAN : SetFloats(floats)
  \/ \E start \in MStarts : SetStartDateTime(start)
  \/ \E rrule \in MRules : AddRRule(rrule)
  \/ \E exrule \in MRules : AddExRule(exrule)
  \/ \E rdate \in {2} : AddRDate(rdate)
  \/ \E exdate \in {KDateTime(3, Hours(10), "UTC")} : AddExDateTime(exdate)
  \/ \E type \in SetterPeriods, freq \in {0} \cup SetterFreqs : SetPeriod(type, freq)
  \/ \E freq \in {0} \cup SetterFreqs : SetWeekly(freq, 1)
  \/ \E freq \in {0} \cup SetterFreqs : SetWeeklyDays(freq, {0}, 1)

SpecSet == Init /\ [][NextSet]_vars

\* the recurrence after a type setter has been called for the period type
\* with the frequency freq
freshRule(type, freq) ==
  /\ Len(d'.mRRules) = 1
  /\ d'.mRRules[1].period = type
  /\ d'.mRRules[1].frequency = freq
  /\ d'.mRRules[1].duration = -1
  /\ d'.mRRules[1].endDt = NoTime
  /\ d'.mRRules[1].start = d.mStartDateTime
  /\ d'.mRRules[1].floats = d.mFloating
  /\ d'.mExRules = d.mExRules
  /\ d'.mRDates = d.mRDates
  /\ d'.mRDateTimes = d.mRDateTimes
  /\ d'.mExDates = d.mExDates
  /\ d'.mExDateTimes = d.mExDateTimes
  /\ d'.mStartDateTime = d.mStartDateTime
  /\ d'.mFloating = d.mFloating

\* C30: setMinutely, setHourly, setDaily, setWeekly (both forms), setMonthly
\* and setYearly with a frequency of at least 1 on a recurrence that is not
\* read-only leave exactly one inclusion rule, of the requested period and
\* frequency, never ending, starting at the anchor and all-day as the
\* recurrence is; the exclusion rules, the four date lists, the anchor and
\* allDay stay as they were.
C30_SetterLeavesOneFreshRule ==
  [][~d.mRecurReadOnly =>
       \A freq \in SetterFreqs :
         /\ \A type \in SetterPeriods : SetPeriod(type, freq) => freshRule(type, freq)
         /\ SetWeekly(freq, 1) => freshRule("rWeekly", freq)
         /\ SetWeeklyDays(freq, {0}, 1) => freshRule("rWeekly", freq)]_vars

\* a weekly rule, which only setWeekly makes, stands alone next to an
\* exclusion rule that was there before
C30_Witness ==
  /\ ~d.mRecurReadOnly
  /\ Len(d.mRRules) = 1
  /\ d.mRRules[1].period = "rWeekly"
  /\ d.mRRules[1].frequency = 1
  /\ d.mRRules[1].duration = -1
  /\ d.mRRules[1].start = d.mStartDateTime
  /\ isValid(d.mStartDateTime)
  /\ d.mExRules # <<>>

====
